---- MODULE Spec2Model ----
(***************************************************************************)
(* Model of the nimsforest package manager core: the workspace descriptor  *)
(* (internal/workspace), the runtime tool resolver and dispatcher          *)
(* (internal/runtimetool), the tool manager (pkg/tool) and the CLI         *)
(* dispatch (cmd).                                                         *)
(*                                                                         *)
(* Go strings are modelled as sequences of one-character strings, so that  *)
(* trimming, splitting and prefix tests are computed and not assumed.      *)
(***************************************************************************)
EXTENDS Integers, Sequences, FiniteSets, TLC

VARIABLES
    ws,        \* the in-memory Workspace the mutators act on
    lastOp,    \* name of the mutator applied last
    content,   \* text handed to ParseWorkspace
    parsed,    \* what ParseWorkspace returned for content
    helpOut,   \* combined output of the tool's help invocation
    commands,  \* what parseCommandsFromHelp returned for helpOut
    fs,        \* the file system: kind of each path that may exist
    cwd,       \* working directory of the process
    onPath,    \* whether $PATH holds an executable named like the tool's path
    outcome,   \* outcome of the last RuntimeTool / Manager operation
    file,      \* text of the descriptor file on disk
    inv,       \* the CLI invocations working on the descriptor file
    saves,     \* the invocations that have saved, in the order they saved
    reg,       \* DefaultRegistry.tools: status of each registered tool
    mu,        \* DefaultManager.mu, a sync.RWMutex
    thr,       \* the goroutines calling into the DefaultManager
    updated,   \* the tools whose Update method has been invoked
    cliArgs,   \* arguments given to a tool command of the CLI
    child,     \* the make child process the CLI ran
    cliExit,   \* exit code of the CLI process, -1 while it runs
    added,     \* for each tool name, the entry added last under that name
    lookup,    \* what Manager.GetTool returned last
    absPaths,  \* what Workspace.GetAbsolutePaths returned last, and its receiver
    normalized,\* what NormalizeWorkspaceContent returned last
    spawns,    \* the child processes GetCommands ran, in order
    rmu,       \* DefaultRegistry.mu, a sync.RWMutex
    rtools,    \* DefaultRegistry.tools, and the status of every Tool object
    calls,     \* the goroutines calling into the DefaultRegistry
    bt,        \* a BaseTool: its status and installation details
    retry      \* an ExecuteWithRetry call in progress

vars == <<ws, lastOp, content, parsed, helpOut, commands, fs, cwd, onPath, outcome,
          file, inv, saves, reg, mu, thr, updated, cliArgs, child, cliExit,
          added, lookup, absPaths, normalized, spawns, rmu, rtools, calls, bt, retry>>

parseVars == <<content, parsed>>
helpVars == <<helpOut, commands>>
rtVars == <<fs, cwd, onPath, outcome>>
raceVars == <<file, inv, saves>>
mgrVars == <<reg, mu, thr, updated>>
lookupVars == <<added, lookup>>
cliVars == <<cliArgs, child, cliExit>>
absVars == <<absPaths>>
normVars == <<normalized>>
discVars == <<spawns>>
regVars == <<rmu, rtools, calls>>
btVars == <<bt>>
retryVars == <<retry>>
extVars == <<absVars, normVars, discVars, regVars, btVars, retryVars>>

-----------------------------------------------------------------------------
(* Go's strings package, on sequences of characters.                       *)

NL == "\n"
SP == " "
TAB == "\t"

\* unicode.IsSpace restricted to the characters the inputs are built from
IsSpace(c) == c \in {SP, TAB, NL, "\r"}

RECURSIVE TrimLeft(_)
TrimLeft(s) ==
    IF s = <<>> THEN <<>>
    ELSE IF IsSpace(Head(s)) THEN TrimLeft(Tail(s)) ELSE s

RECURSIVE TrimRight(_)
TrimRight(s) ==
    IF s = <<>> THEN <<>>
    ELSE IF IsSpace(s[Len(s)]) THEN TrimRight(SubSeq(s, 1, Len(s) - 1)) ELSE s

\* strings.TrimSpace
TrimSpace(s) == TrimRight(TrimLeft(s))

\* strings.HasPrefix
HasPrefix(s, p) == Len(s) >= Len(p) /\ SubSeq(s, 1, Len(p)) = p

\* strings.Contains
Contains(s, sub) ==
    \E i \in 1..(Len(s) - Len(sub) + 1) : SubSeq(s, i, i + Len(sub) - 1) = sub

\* strings.Split(s, "\n"): always at least one element
RECURSIVE SplitLines(_)
SplitLines(s) ==
    IF \A i \in 1..Len(s) : s[i] /= NL THEN <<s>>
    ELSE LET k == CHOOSE i \in 1..Len(s) :
                     s[i] = NL /\ \A j \in 1..(i - 1) : s[j] /= NL
         IN  <<SubSeq(s, 1, k - 1)>> \o SplitLines(SubSeq(s, k + 1, Len(s)))

\* strings.Fields: the maximal runs of non-space characters
RECURSIVE Fields(_)
Fields(s) ==
    LET t == TrimLeft(s)
    IN  IF t = <<>> THEN <<>>
        ELSE LET n == IF \E i \in 1..Len(t) : IsSpace(t[i])
                      THEN (CHOOSE i \in 1..Len(t) :
                               IsSpace(t[i]) /\ \A j \in 1..(i - 1) : ~IsSpace(t[j])) - 1
                      ELSE Len(t)
             IN  <<SubSeq(t, 1, n)>> \o Fields(SubSeq(t, n + 1, Len(t)))

\* strings.Join(lines, "\n")
RECURSIVE JoinLines(_)
JoinLines(ls) ==
    IF ls = <<>> THEN <<>>
    ELSE IF Len(ls) = 1 THEN ls[1]
    ELSE ls[1] \o <<NL>> \o JoinLines(Tail(ls))

Digits == {"0", "1", "2", "3", "4", "5", "6", "7", "8", "9"}

\* regexp `^\d+\.\d+$`
VersionMatches(s) ==
    \E k \in 2..(Len(s) - 1) :
        /\ s[k] = "."
        /\ \A i \in 1..Len(s) : i /= k => s[i] \in Digits

-----------------------------------------------------------------------------
(* String constants of the descriptor format.                              *)

Empty == <<>>
kwNimsforest == <<"n", "i", "m", "s", "f", "o", "r", "e", "s", "t">>
kwOrganization == <<"o", "r", "g", "a", "n", "i", "z", "a", "t", "i", "o", "n">>
kwProducts == <<"p", "r", "o", "d", "u", "c", "t", "s">>
kwTools == <<"t", "o", "o", "l", "s">>
kwBinary == <<"b", "i", "n", "a", "r", "y">>
kwClone == <<"c", "l", "o", "n", "e">>
kwSubmodule == <<"s", "u", "b", "m", "o", "d", "u", "l", "e">>
DefaultVersion == <<"1", ".", "0">>
Indent == <<SP, SP, SP, SP>>
Hash == <<"#">>
OpenParen == <<"(">>
CloseParen == <<")">>

-----------------------------------------------------------------------------
(* internal/workspace/workspace.go                                         *)

ToolEntry(name, mode, path, version) ==
    [Name |-> name, Mode |-> mode, Path |-> path, Version |-> version]

NewWorkspace ==
    [Version |-> DefaultVersion, Organization |-> Empty,
     Products |-> <<>>, Tools |-> <<>>, FilePath |-> Empty]

InSeq(x, s) == \E i \in 1..Len(s) : s[i] = x

\* index of the first product equal to p
ProductIndex(ps, p) == CHOOSE i \in 1..Len(ps) : ps[i] = p /\ \A j \in 1..(i - 1) : ps[j] /= p

\* index of the first tool named name
ToolIndex(ts, name) ==
    CHOOSE i \in 1..Len(ts) : ts[i].Name = name /\ \A j \in 1..(i - 1) : ts[j].Name /= name

RemoveAt(s, i) == SubSeq(s, 1, i - 1) \o SubSeq(s, i + 1, Len(s))

\* AddProduct appending whatever the list holds
AddProductAppend(w, productPath) == [w EXCEPT !.Products = Append(@, productPath)]

\* Workspace.AddProduct
AddProduct(w, productPath) ==
    IF InSeq(productPath, w.Products) THEN w
    ELSE [w EXCEPT !.Products = Append(@, productPath)]

\* RemoveProduct removing the last product instead of the first match
RemoveProductLast(w, productPath) ==
    IF InSeq(productPath, w.Products)
    THEN [w EXCEPT !.Products = SubSeq(@, 1, Len(@) - 1)]
    ELSE w

\* Workspace.RemoveProduct
RemoveProduct(w, productPath) ==
    IF InSeq(productPath, w.Products)
    THEN LET i == ProductIndex(w.Products, productPath)
         IN  [w EXCEPT !.Products = RemoveAt(@, i)]
    ELSE w

HasTool(w, name) == \E i \in 1..Len(w.Tools) : w.Tools[i].Name = name

\* AddTool appending whatever the name
AddToolAppend(w, tool) == [w EXCEPT !.Tools = Append(@, tool)]

\* Workspace.AddTool
AddTool(w, tool) ==
    IF HasTool(w, tool.Name)
    THEN LET i == ToolIndex(w.Tools, tool.Name)
         IN  [w EXCEPT !.Tools[i] = tool]
    ELSE [w EXCEPT !.Tools = Append(@, tool)]

\* Workspace.RemoveTool
RemoveTool(w, toolName) ==
    IF HasTool(w, toolName)
    THEN LET i == ToolIndex(w.Tools, toolName)
         IN  [w EXCEPT !.Tools = RemoveAt(@, i)]
    ELSE w

\* the zero ToolEntry
NoEntry == ToolEntry(Empty, Empty, Empty, Empty)

\* A (*ToolEntry, error) result; err is "" for nil
EntryResult(entry, err) == [entry |-> entry, err |-> err]

\* Workspace.GetTool returning the first entry whatever the name
GetToolFirst(w, toolName) ==
    IF Len(w.Tools) > 0
    THEN EntryResult(w.Tools[1], "")
    ELSE EntryResult(NoEntry, "tool not found in workspace")

\* Workspace.GetTool
GetTool(w, toolName) ==
    IF HasTool(w, toolName)
    THEN EntryResult(w.Tools[ToolIndex(w.Tools, toolName)], "")
    ELSE EntryResult(NoEntry, "tool not found in workspace")

RECURSIVE ProductBlock(_)
ProductBlock(ps) ==
    IF ps = <<>> THEN <<>>
    ELSE Indent \o Head(ps) \o <<NL>> \o ProductBlock(Tail(ps))

RECURSIVE ToolBlock(_)
ToolBlock(ts) ==
    IF ts = <<>> THEN <<>>
    ELSE LET t == Head(ts)
         IN  Indent \o t.Name \o <<SP>> \o t.Mode \o <<SP>> \o t.Path \o <<SP>>
                 \o t.Version \o <<NL>> \o ToolBlock(Tail(ts))

\* a String that writes no blank line after the version line
StringNoSeparator(w) ==
    LET hasOrg == w.Organization /= Empty
        hasProducts == Len(w.Products) > 0
        hasTools == Len(w.Tools) > 0
    IN  kwNimsforest \o <<SP>> \o w.Version
        \o (IF hasOrg
            THEN <<NL>> \o kwOrganization \o <<SP>> \o w.Organization
                 \o (IF hasProducts THEN <<NL>> ELSE <<>>)
            ELSE <<>>)
        \o (IF hasProducts
            THEN <<NL>> \o kwProducts \o <<SP>> \o OpenParen \o <<NL>>
                 \o ProductBlock(w.Products) \o CloseParen
            ELSE <<>>)
        \o (IF hasTools
            THEN (IF hasProducts THEN <<NL>> ELSE <<>>)
                 \o <<NL>> \o kwTools \o <<SP>> \o OpenParen \o <<NL>>
                 \o ToolBlock(w.Tools) \o CloseParen
            ELSE <<>>)

\* Workspace.String
String(w) ==
    LET hasOrg == w.Organization /= Empty
        hasProducts == Len(w.Products) > 0
        hasTools == Len(w.Tools) > 0
    IN  kwNimsforest \o <<SP>> \o w.Version
        \o (IF hasOrg \/ hasProducts THEN <<NL>> ELSE <<>>)
        \o (IF hasOrg
            THEN <<NL>> \o kwOrganization \o <<SP>> \o w.Organization
                 \o (IF hasProducts THEN <<NL>> ELSE <<>>)
            ELSE <<>>)
        \o (IF hasProducts
            THEN <<NL>> \o kwProducts \o <<SP>> \o OpenParen \o <<NL>>
                 \o ProductBlock(w.Products) \o CloseParen
            ELSE <<>>)
        \o (IF hasTools
            THEN (IF hasProducts THEN <<NL>> ELSE <<>>)
                 \o <<NL>> \o kwTools \o <<SP>> \o OpenParen \o <<NL>>
                 \o ToolBlock(w.Tools) \o CloseParen
            ELSE <<>>)

\* a write that appends to the file instead of truncating it
WriteFileAppend(old, data) == old \o data

\* os.WriteFile(filePath, data, 0644): the content of a file that held old
WriteFile(old, data) == data

-----------------------------------------------------------------------------
(* internal/workspace/parser.go                                            *)

\* An error value: msg is the message's fixed text, line the number in a
\* "line %d: " prefix, at the number in an "at line %d" clause (0 = the
\* message has no such number), got the text the message quotes.
Err(msg, line, at, got) == [msg |-> msg, line |-> line, at |-> at, got |-> got]

NoErr == Err("", 0, 0, Empty)

\* fmt.Errorf("line %d: %w", lineNum+1, err)
WrapLine(n, e) == [e EXCEPT !.line = n]

\* the nil *Workspace returned together with an error
NilWorkspace ==
    [Version |-> Empty, Organization |-> Empty,
     Products |-> <<>>, Tools |-> <<>>, FilePath |-> Empty]

Failed(e) == [ok |-> FALSE, err |-> e, ws |-> NilWorkspace]

Parsed(w) == [ok |-> TRUE, err |-> NoErr, ws |-> w]

IsSkipped(line) == line = Empty \/ HasPrefix(line, Hash)

\* parseVersionLine
parseVersionLine(line, w) ==
    LET parts == Fields(line)
    IN  IF Len(parts) /= 2
        THEN Failed(Err("invalid version line format", 0, 0, line))
        ELSE IF parts[1] /= kwNimsforest
        THEN Failed(Err("invalid version line", 0, 0, parts[1]))
        ELSE IF ~VersionMatches(parts[2])
        THEN Failed(Err("invalid version format", 0, 0, parts[2]))
        ELSE Parsed([w EXCEPT !.Version = parts[2]])

\* parseOrganizationLine
parseOrganizationLine(line, w) ==
    LET parts == Fields(line)
    IN  IF Len(parts) /= 2
        THEN Failed(Err("invalid organization line format", 0, 0, line))
        ELSE IF parts[1] /= kwOrganization
        THEN Failed(Err("invalid organization line", 0, 0, parts[1]))
        ELSE Parsed([w EXCEPT !.Organization = parts[2]])

\* parseProductsStartLine / parseToolsStartLine, for keyword kw
parseStartLine(line0, kw, msg) ==
    LET line == TrimSpace(line0)
    IN  IF line = kw \o <<SP>> \o OpenParen \/ line = kw \o OpenParen
        THEN NoErr
        ELSE IF HasPrefix(line, kw)
                /\ TrimSpace(SubSeq(line, Len(kw) + 1, Len(line))) = OpenParen
        THEN NoErr
        ELSE Err(msg, 0, 0, line)

parseProductsStartLine(line) ==
    parseStartLine(line, kwProducts, "invalid products section start")

parseToolsStartLine(line) ==
    parseStartLine(line, kwTools, "invalid tools section start")

\* parseProductLines appending every line, duplicates included
RECURSIVE parseProductLinesAppend(_, _, _)
parseProductLinesAppend(lines, i, w) ==
    IF i > Len(lines) THEN Parsed(w)
    ELSE LET line == TrimSpace(lines[i])
         IN  IF IsSkipped(line) THEN parseProductLinesAppend(lines, i + 1, w)
             ELSE parseProductLinesAppend(lines, i + 1,
                      [w EXCEPT !.Products = Append(@, line)])

\* parseProductLines
RECURSIVE parseProductLines(_, _, _)
parseProductLines(lines, i, w) ==
    IF i > Len(lines) THEN Parsed(w)
    ELSE LET line == TrimSpace(lines[i])
         IN  IF IsSkipped(line) THEN parseProductLines(lines, i + 1, w)
             ELSE parseProductLines(lines, i + 1, AddProduct(w, line))

\* a set of modes that lets any mode through
AnyModes == {kwBinary, kwClone, kwSubmodule, <<"z">>}

ValidModes == {kwBinary, kwClone, kwSubmodule}

\* parseToolLines
RECURSIVE parseToolLines(_, _, _)
parseToolLines(lines, i, w) ==
    IF i > Len(lines) THEN Parsed(w)
    ELSE LET line == TrimSpace(lines[i])
             parts == Fields(line)
         IN  IF IsSkipped(line) THEN parseToolLines(lines, i + 1, w)
             ELSE IF Len(parts) /= 4
             THEN Failed(Err("invalid tool line format", 0, i, line))
             ELSE IF parts[2] \notin ValidModes
             THEN Failed(Err("invalid tool mode", 0, i, parts[2]))
             ELSE parseToolLines(lines, i + 1,
                      AddTool(w, ToolEntry(parts[1], parts[2], parts[3], parts[4])))

\* Whether the header branch for keyword kw is taken: strings.HasPrefix(line, kw+" ")
HeaderPrefix(line, kw) == HasPrefix(line, kw \o <<SP>>)

\* The end of ParseWorkspace, after the loop over the lines
ParseFinish(state, w, productLines, toolLines) ==
    LET rp == IF Len(productLines) > 0 THEN parseProductLines(productLines, 1, w)
              ELSE Parsed(w)
        rt == IF Len(toolLines) > 0 THEN parseToolLines(toolLines, 1, rp.ws)
              ELSE Parsed(rp.ws)
    IN  IF ~rp.ok THEN rp
        ELSE IF ~rt.ok THEN rt
        ELSE IF state = "products"
        THEN Failed(Err("products section not properly closed", 0, 0, Empty))
        ELSE IF state = "tools"
        THEN Failed(Err("tools section not properly closed", 0, 0, Empty))
        ELSE rt

\* The loop of ParseWorkspace over the lines, from line i (1-based) on
RECURSIVE ParseLoop(_, _, _, _, _, _)
ParseLoop(lines, i, state, w, productLines, toolLines) ==
    IF i > Len(lines) THEN ParseFinish(state, w, productLines, toolLines)
    ELSE
      LET line == TrimSpace(lines[i])
      IN  IF IsSkipped(line)
          THEN ParseLoop(lines, i + 1, state, w, productLines, toolLines)
          ELSE CASE state = "start" ->
                    LET r == parseVersionLine(line, w)
                    IN  IF ~r.ok THEN Failed(WrapLine(i, r.err))
                        ELSE ParseLoop(lines, i + 1, "header", r.ws, productLines, toolLines)
                 [] state = "header" ->
                    IF HeaderPrefix(line, kwOrganization)
                    THEN LET r == parseOrganizationLine(line, w)
                         IN  IF ~r.ok THEN Failed(WrapLine(i, r.err))
                             ELSE ParseLoop(lines, i + 1, "header", r.ws, productLines, toolLines)
                    ELSE IF HeaderPrefix(line, kwProducts)
                    THEN LET e == parseProductsStartLine(line)
                         IN  IF e /= NoErr THEN Failed(WrapLine(i, e))
                             ELSE ParseLoop(lines, i + 1, "products", w, productLines, toolLines)
                    ELSE IF HeaderPrefix(line, kwTools)
                    THEN LET e == parseToolsStartLine(line)
                         IN  IF e /= NoErr THEN Failed(WrapLine(i, e))
                             ELSE ParseLoop(lines, i + 1, "tools", w, productLines, toolLines)
                    ELSE Failed(Err("unexpected line in header section", i, 0, line))
                 [] state = "products" ->
                    IF line = CloseParen
                    THEN ParseLoop(lines, i + 1, "header", w, productLines, toolLines)
                    ELSE ParseLoop(lines, i + 1, state, w, Append(productLines, line), toolLines)
                 [] state = "tools" ->
                    IF line = CloseParen
                    THEN ParseLoop(lines, i + 1, "header", w, productLines, toolLines)
                    ELSE ParseLoop(lines, i + 1, state, w, productLines, Append(toolLines, line))

\* ParseWorkspace
ParseWorkspace(text) ==
    IF text = Empty
    THEN Failed(Err("workspace content cannot be empty", 0, 0, Empty))
    ELSE ParseLoop(SplitLines(text), 1, "start", NewWorkspace, <<>>, <<>>)

\* an entry line written with the indentation it came with kept
IndentEntryOriginal(original, line) == Indent \o original

\* fmt.Sprintf("    %s", line)
IndentEntry(original, line) == Indent \o line

\* the loop of NormalizeWorkspaceContent over the lines, from line i on
RECURSIVE NormalizeLoop(_, _, _, _)
NormalizeLoop(lines, i, inProducts, inTools) ==
    IF i > Len(lines) THEN <<>>
    ELSE LET original == lines[i]
             line == TrimSpace(original)
         IN  IF line = Empty
             THEN <<Empty>> \o NormalizeLoop(lines, i + 1, inProducts, inTools)
             ELSE IF HasPrefix(line, Hash)
             THEN <<original>> \o NormalizeLoop(lines, i + 1, inProducts, inTools)
             ELSE IF HasPrefix(line, kwNimsforest \o <<SP>>)
             THEN <<line>> \o NormalizeLoop(lines, i + 1, inProducts, inTools)
             ELSE IF HasPrefix(line, kwOrganization \o <<SP>>)
             THEN <<line>> \o NormalizeLoop(lines, i + 1, inProducts, inTools)
             ELSE IF HasPrefix(line, kwProducts \o <<SP>>)
             THEN <<kwProducts \o <<SP>> \o OpenParen>>
                      \o NormalizeLoop(lines, i + 1, TRUE, inTools)
             ELSE IF HasPrefix(line, kwTools \o <<SP>>)
             THEN <<kwTools \o <<SP>> \o OpenParen>>
                      \o NormalizeLoop(lines, i + 1, inProducts, TRUE)
             ELSE IF line = CloseParen /\ (inProducts \/ inTools)
             THEN <<CloseParen>> \o NormalizeLoop(lines, i + 1, FALSE, FALSE)
             ELSE IF inProducts
             THEN <<IndentEntry(original, line)>>
                      \o NormalizeLoop(lines, i + 1, inProducts, inTools)
             ELSE IF inTools
             THEN <<IndentEntry(original, line)>>
                      \o NormalizeLoop(lines, i + 1, inProducts, inTools)
             ELSE <<line>> \o NormalizeLoop(lines, i + 1, inProducts, inTools)

\* NormalizeWorkspaceContent
NormalizeWorkspaceContent(text) ==
    JoinLines(NormalizeLoop(SplitLines(text), 1, FALSE, FALSE))

\* LoadWorkspace, for a file that exists and holds text
LoadWorkspace(text, filePath) ==
    LET r == ParseWorkspace(text)
    IN  IF ~r.ok THEN r ELSE Parsed([r.ws EXCEPT !.FilePath = filePath])

-----------------------------------------------------------------------------
(* internal/runtimetool: command discovery from help output.               *)

UpperCase == <<"A", "B", "C", "D", "E", "F", "G", "H", "I", "J", "K", "L", "M",
               "N", "O", "P", "Q", "R", "S", "T", "U", "V", "W", "X", "Y", "Z">>
LowerCase == <<"a", "b", "c", "d", "e", "f", "g", "h", "i", "j", "k", "l", "m",
               "n", "o", "p", "q", "r", "s", "t", "u", "v", "w", "x", "y", "z">>

ToLowerChar(c) ==
    IF InSeq(c, UpperCase)
    THEN LowerCase[CHOOSE i \in 1..Len(UpperCase) : UpperCase[i] = c]
    ELSE c

\* strings.ToLower
ToLower(s) == [i \in 1..Len(s) |-> ToLowerChar(s[i])]

kwCommand == <<"c", "o", "m", "m", "a", "n", "d">>

\* isValidCommandName
isValidCommandName(name) ==
    /\ name /= Empty
    /\ \A i \in 1..Len(name) :
          \/ InSeq(name[i], LowerCase)
          \/ InSeq(name[i], UpperCase)
          \/ name[i] \in Digits
          \/ name[i] \in {"-", "_"}

\* the loop of parseCommandsFromHelp over the lines, from line i on
RECURSIVE parseCommandsLoop(_, _, _, _)
parseCommandsLoop(lines, i, inCommandsSection, cmds) ==
    IF i > Len(lines) THEN cmds
    ELSE
      LET line == TrimSpace(lines[i])
          fields == Fields(line)
      IN  IF Contains(ToLower(line), kwCommand) /\ Contains(line, <<":">>)
          THEN parseCommandsLoop(lines, i + 1, TRUE, cmds)
          ELSE IF ~inCommandsSection
          THEN parseCommandsLoop(lines, i + 1, FALSE, cmds)
          ELSE IF line = Empty \/ (~HasPrefix(line, <<SP>>) /\ ~HasPrefix(line, <<TAB>>))
          THEN cmds
          ELSE IF Len(fields) > 0 /\ isValidCommandName(fields[1])
          THEN parseCommandsLoop(lines, i + 1, TRUE, Append(cmds, fields[1]))
          ELSE parseCommandsLoop(lines, i + 1, TRUE, cmds)

\* RuntimeTool.parseCommandsFromHelp
parseCommandsFromHelp(output) == parseCommandsLoop(SplitLines(output), 1, FALSE, <<>>)

-----------------------------------------------------------------------------
(* path/filepath and os, on character sequences.                           *)

Slash == <<"/">>
Dot == <<".">>
DotDot == <<".", ".">>

\* strings.Split(s, "/")
RECURSIVE SplitPath(_)
SplitPath(s) ==
    IF \A i \in 1..Len(s) : s[i] /= "/" THEN <<s>>
    ELSE LET k == CHOOSE i \in 1..Len(s) :
                     s[i] = "/" /\ \A j \in 1..(i - 1) : s[j] /= "/"
         IN  <<SubSeq(s, 1, k - 1)>> \o SplitPath(SubSeq(s, k + 1, Len(s)))

RECURSIVE JoinPath(_)
JoinPath(cs) ==
    IF cs = <<>> THEN <<>>
    ELSE IF Len(cs) = 1 THEN cs[1]
    ELSE cs[1] \o Slash \o JoinPath(Tail(cs))

\* filepath.IsAbs
IsAbs(p) == HasPrefix(p, Slash)

\* the components filepath.Clean keeps: no empty and "." elements, ".."
\* removes the element before it (or is dropped at the root)
RECURSIVE CleanComponents(_, _, _)
CleanComponents(cs, rooted, acc) ==
    IF cs = <<>> THEN acc
    ELSE LET c == Head(cs)
         IN  IF c = Empty \/ c = Dot THEN CleanComponents(Tail(cs), rooted, acc)
             ELSE IF c = DotDot
             THEN IF Len(acc) > 0 /\ acc[Len(acc)] /= DotDot
                  THEN CleanComponents(Tail(cs), rooted, SubSeq(acc, 1, Len(acc) - 1))
                  ELSE IF rooted THEN CleanComponents(Tail(cs), rooted, acc)
                  ELSE CleanComponents(Tail(cs), rooted, Append(acc, c))
             ELSE CleanComponents(Tail(cs), rooted, Append(acc, c))

\* filepath.Clean
Clean(p) ==
    IF p = Empty THEN Dot
    ELSE LET cs == CleanComponents(SplitPath(p), IsAbs(p), <<>>)
         IN  IF IsAbs(p) THEN Slash \o JoinPath(cs)
             ELSE IF cs = <<>> THEN Dot ELSE JoinPath(cs)

\* filepath.Join of two elements: empty elements are ignored
Join(a, b) ==
    IF a = Empty /\ b = Empty THEN Empty
    ELSE IF a = Empty THEN Clean(b)
    ELSE IF b = Empty THEN Clean(a)
    ELSE Clean(a \o Slash \o b)

\* filepath.Dir
Dir(p) ==
    IF \A i \in 1..Len(p) : p[i] /= "/" THEN Dot
    ELSE LET k == CHOOSE i \in 1..Len(p) :
                     p[i] = "/" /\ \A j \in (i + 1)..Len(p) : p[j] /= "/"
         IN  Clean(SubSeq(p, 1, k))

\* the absolute path the kernel resolves p to
Resolve(dir, p) == IF IsAbs(p) THEN Clean(p) ELSE Join(dir, p)

\* Kinds of file system entries: a directory (created 0755, so with
\* executable bits), a regular file without any executable bit, a regular
\* file with one.
KindNone == "none"
KindDir == "dir"
KindFile == "file"
KindExec == "exec"

\* not an entry: os.Stat failing with ENOTDIR, a regular file being used as
\* a directory on the way to the path
KindNotDir == "notdir"

\* os.Stat(p): the kind of p; KindNone when Stat fails with ENOENT, the only
\* error os.IsNotExist reports, and KindNotDir when it fails with ENOTDIR
Stat(files, dir, p) ==
    LET q == Resolve(dir, p)
    IN  IF p = Empty THEN KindNone
        ELSE IF \E f \in DOMAIN files :
                    files[f] \in {KindFile, KindExec} /\ HasPrefix(q, f \o Slash)
        THEN KindNotDir
        ELSE IF q \in DOMAIN files THEN files[q]
        ELSE IF q = Slash
                \/ \E f \in DOMAIN files : files[f] /= KindNone /\ HasPrefix(f, q \o Slash)
        THEN KindDir
        ELSE KindNone

\* err == nil after os.Stat
StatOk(kind) == kind \notin {KindNone, KindNotDir}

\* os.IsNotExist(err) after os.Stat
IsNotExist(kind) == kind = KindNone

\* info.Mode()&0111 != 0
HasExecBit(kind) == kind \in {KindDir, KindExec}

-----------------------------------------------------------------------------
(* internal/runtimetool: RuntimeTool and Manager.                          *)

kwBin == <<"b", "i", "n">>

\* A (path, error) result; err is "" on success
PathResult(path, err) == [path |-> path, err |-> err]

\* RuntimeTool.GetExecutablePath, for entry e of workspace w
GetExecutablePath(e, w, files, dir) ==
    IF e.Mode = kwBinary THEN PathResult(e.Path, "")
    ELSE IF e.Mode \in {kwClone, kwSubmodule}
    THEN IF w.FilePath /= Empty
         THEN LET workspaceDir == Dir(w.FilePath)
                  toolPath == Join(workspaceDir, e.Path)
                  binaryPath == Join(toolPath, e.Name)
                  binPath == Join(Join(toolPath, kwBin), e.Name)
              IN  IF StatOk(Stat(files, dir, binaryPath)) THEN PathResult(binaryPath, "")
                  ELSE IF StatOk(Stat(files, dir, binPath)) THEN PathResult(binPath, "")
                  ELSE PathResult(toolPath, "")
         ELSE PathResult(e.Path, "")
    ELSE PathResult(Empty, "unsupported tool mode")

\* Validate without its test of the permission bits
ValidateNoExecBit(e, w, files, dir) ==
    LET r == GetExecutablePath(e, w, files, dir)
        kind == Stat(files, dir, r.path)
    IN  IF r.err /= "" THEN r.err
        ELSE IF IsNotExist(kind) THEN "tool path does not exist"
        ELSE IF e.Mode = kwBinary /\ ~StatOk(kind) THEN "not a directory"
        ELSE ""

\* RuntimeTool.Validate: the error it returns, "" for nil
Validate(e, w, files, dir) ==
    LET r == GetExecutablePath(e, w, files, dir)
        kind == Stat(files, dir, r.path)
    IN  IF r.err /= "" THEN r.err
        ELSE IF IsNotExist(kind) THEN "tool path does not exist"
        ELSE IF e.Mode = kwBinary /\ ~StatOk(kind) THEN "not a directory"
        ELSE IF e.Mode = kwBinary /\ ~HasExecBit(kind) THEN "tool binary is not executable"
        ELSE ""

\* NewRuntimeTool: the tool holds a copy of the entry and the workspace
NewRuntimeTool(entry, w) == [entry |-> entry, workspace |-> w]

\* the nil *RuntimeTool
NilRuntimeTool == NewRuntimeTool(NoEntry, NilWorkspace)

\* A (*RuntimeTool, error) result of looking name up; err is "" for nil
ToolResult(name, tool, err) == [name |-> name, tool |-> tool, err |-> err]

\* Manager.GetTool
ManagerGetTool(w, name) ==
    LET r == GetTool(w, name)
    IN  IF r.err /= "" THEN ToolResult(name, NilRuntimeTool, r.err)
        ELSE ToolResult(name, NewRuntimeTool(r.entry, w), "")

\* exec.Command(name).Run(): whether a child process is started.  A name
\* without a separator is looked up in $PATH and nowhere else; any other
\* name must be an executable regular file.
Spawns(files, dir, hit, name) ==
    IF ~Contains(name, Slash) THEN hit
    ELSE Stat(files, dir, name) = KindExec

\* Outcome of an operation: op its name, path the executable path computed,
\* err the error returned ("" for nil), spawned whether a child process was
\* started, exit the child's exit code
Outcome(op, path, err, spawned, exit) ==
    [op |-> op, path |-> path, err |-> err, spawned |-> spawned, exit |-> exit]

NoOutcome == Outcome("none", Empty, "", FALSE, 0)

\* RuntimeTool.Execute, the child exiting with code exit when it is started
Execute(e, w, files, dir, hit, exit) ==
    LET r == GetExecutablePath(e, w, files, dir)
    IN  IF r.err /= "" THEN Outcome("Execute", Empty, r.err, FALSE, 0)
        ELSE IF ~Spawns(files, dir, hit, r.path)
        THEN Outcome("Execute", r.path, "exec: cannot start", FALSE, 0)
        ELSE IF exit /= 0 THEN Outcome("Execute", r.path, "exit status", TRUE, exit)
        ELSE Outcome("Execute", r.path, "", TRUE, 0)

\* help flags tried with the bare word first
helpFlagsWordFirst == << <<"h", "e", "l", "p">>, <<"-", "-", "h", "e", "l", "p">>, <<"-", "h">> >>

\* helpFlags := []string{"--help", "-h", "help"}
helpFlags == << <<"-", "-", "h", "e", "l", "p">>, <<"-", "h">>, <<"h", "e", "l", "p">> >>

\* cmd.CombinedOutput() of one child process: failed when err /= nil (the
\* child could not be started or exited with a non-zero code), output what
\* it wrote
RunResult(failed, output) == [failed |-> failed, output |-> output]

\* one exec.CommandContext(ctx, execPath, args...).CombinedOutput()
SpawnRecord(args, run) == [args |-> args, failed |-> run.failed, output |-> run.output]

\* A ([]string, error) result of GetCommands with the child processes it
\* ran, in order; err is "" for nil
DiscoverResult(cmds, err, trace) == [commands |-> cmds, err |-> err, spawns |-> trace]

\* the body of GetCommands from attempt i on: attempts 1 to 3 pass one help
\* flag, attempt 4 passes no argument; runs[i] is what the i-th child does
\* when it can be started
RECURSIVE GetCommandsFrom(_, _, _, _)
GetCommandsFrom(canStart, runs, i, trace) ==
    LET args == IF i <= Len(helpFlags) THEN <<helpFlags[i]>> ELSE <<>>
        run == IF canStart THEN runs[i] ELSE RunResult(TRUE, Empty)
        spawned == Append(trace, SpawnRecord(args, run))
        cmds == parseCommandsFromHelp(run.output)
    IN  IF ~run.failed /\ Len(cmds) > 0 THEN DiscoverResult(cmds, "", spawned)
        ELSE IF i <= Len(helpFlags) THEN GetCommandsFrom(canStart, runs, i + 1, spawned)
        ELSE DiscoverResult(<<>>, "", spawned)

\* RuntimeTool.GetCommands
GetCommands(e, w, files, dir, hit, runs) ==
    LET r == GetExecutablePath(e, w, files, dir)
    IN  IF r.err /= "" THEN DiscoverResult(<<>>, r.err, <<>>)
        ELSE GetCommandsFrom(Spawns(files, dir, hit, r.path), runs, 1, <<>>)

\* An error of Workspace.Validate: err is "" for nil, path the path the
\* message quotes
PathError(err, path) == [err |-> err, path |-> path]

\* the existence check Workspace.Validate makes for one path: the path that
\* is missing, Empty when the check passes or is skipped
MissingPath(w, p, files, dir) ==
    IF ~IsAbs(p)
    THEN IF w.FilePath /= Empty
         THEN LET joined == Join(Dir(w.FilePath), p)
              IN  IF IsNotExist(Stat(files, dir, joined)) THEN joined ELSE Empty
         ELSE Empty
    ELSE IF IsNotExist(Stat(files, dir, p)) THEN p ELSE Empty

\* the loop of Workspace.Validate over the products, from product i on
RECURSIVE ValidateProducts(_, _, _, _)
ValidateProducts(w, i, files, dir) ==
    IF i > Len(w.Products) THEN PathError("", Empty)
    ELSE LET missing == MissingPath(w, w.Products[i], files, dir)
         IN  IF missing /= Empty THEN PathError("product path does not exist", missing)
             ELSE ValidateProducts(w, i + 1, files, dir)

\* Workspace.Validate
WorkspaceValidate(w, files, dir) ==
    IF w.Version = Empty THEN PathError("version cannot be empty", Empty)
    ELSE IF w.Organization /= Empty /\ MissingPath(w, w.Organization, files, dir) /= Empty
    THEN PathError("organization path does not exist",
                   MissingPath(w, w.Organization, files, dir))
    ELSE ValidateProducts(w, 1, files, dir)

\* An (organization, products, error) result; err is "" for nil
PathsResult(org, products, err) == [org |-> org, products |-> products, err |-> err]

\* GetAbsolutePaths returning every path as the workspace holds it
GetAbsolutePathsUnresolved(w) ==
    IF w.FilePath = Empty THEN PathsResult(Empty, <<>>, "workspace file path not set")
    ELSE PathsResult(w.Organization, w.Products, "")

\* Workspace.GetAbsolutePaths
GetAbsolutePaths(w) ==
    IF w.FilePath = Empty THEN PathsResult(Empty, <<>>, "workspace file path not set")
    ELSE LET workspaceDir == Dir(w.FilePath)
             abs(p) == IF IsAbs(p) THEN p ELSE Join(workspaceDir, p)
         IN  PathsResult(IF w.Organization /= Empty THEN abs(w.Organization) ELSE Empty,
                         [i \in 1..Len(w.Products) |-> abs(w.Products[i])],
                         "")

-----------------------------------------------------------------------------
(* pkg/tool: DefaultManager over a DefaultRegistry, and sync.RWMutex.      *)

\* ToolStatus values; StAbsent marks a name that is not registered
StInstalled == "Installed"
StNotInstalled == "NotInstalled"
StError == "Error"
StAbsent == "absent"

NoThread == "none"

\* a sync.RWMutex: readers holding it, the goroutine that owns the writer
\* slot (it holds or awaits the write lock and keeps new readers out), and
\* whether the write lock is held
RWMutex(readers, w, held) == [readers |-> readers, w |-> w, held |-> held]

\* RLock can proceed when no writer holds or awaits the lock
CanRLock(m) == m.w = NoThread
RLock(m) == [m EXCEPT !.readers = @ + 1]
RUnlock(m) == [m EXCEPT !.readers = @ - 1]

\* Lock first takes the writer slot, then waits for the readers to leave
CanLockSlot(m) == m.w = NoThread
LockSlot(m, t) == [m EXCEPT !.w = t]
CanLockAcquire(m, t) == m.w = t /\ ~m.held /\ m.readers = 0
LockAcquire(m) == [m EXCEPT !.held = TRUE]
Unlock(m) == [m EXCEPT !.held = FALSE, !.w = NoThread]

\* the names DefaultRegistry.List returns, sorted, from position i on
RECURSIVE ListFrom(_, _, _)
ListFrom(r, i, n) ==
    IF i > n THEN <<>>
    ELSE (IF r[i] /= StAbsent THEN <<i>> ELSE <<>>) \o ListFrom(r, i + 1, n)

\* A goroutine: where it is, the tool UpdateTool was called for, the list
\* UpdateAll iterates over and its position in it, and the error returned
Thread(pc, name, tools, i, err) ==
    [pc |-> pc, name |-> name, tools |-> tools, i |-> i, err |-> err]

\* the error DefaultManager.UpdateTool returns once it holds the lock
UpdateToolError(r, name) ==
    IF r[name] = StAbsent THEN "tool not found"
    ELSE IF r[name] /= StInstalled THEN "update failed: tool is not installed"
    ELSE ""

\* pkg/tool: DefaultRegistry.

\* a Lock that waits for nobody
CanLockAlways(m) == TRUE

\* Lock returns once no goroutine holds the mutex, for reading or writing
CanLock(m) == m.w = NoThread /\ m.readers = 0
Lock(m, g) == [m EXCEPT !.w = g, !.held = TRUE]

\* A Tool: the object's identity, what Name() returns and whether
\* Validate() passes
RegTool(id, name, valid) == [id |-> id, name |-> name, valid |-> valid]

\* the nil Tool, which is also what a map holds for a missing key
NilTool == RegTool("nil", <<>>, FALSE)

\* the error Register returns before it writes, "" when it goes on to write
RegisterCheck(tools, tool) ==
    IF tool.name = <<>> THEN "validation failed: tool name cannot be empty"
    ELSE IF tools[tool.name] /= NilTool THEN "tool already exists"
    ELSE IF ~tool.valid THEN "tool validation failed"
    ELSE ""

\* the error Unregister returns before it deletes
UnregisterCheck(tools, name) ==
    IF tools[name] = NilTool THEN "tool not found" ELSE ""

\* the error of DefaultRegistry.Get; the tool it returns is tools[name]
GetError(tools, name) == IF tools[name] = NilTool THEN "tool not found" ELSE ""

\* A registry call that has taken effect: the method, its argument (the
\* tool of Register, else the name), the error and the value returned (the
\* tool of Get, the boolean of Exists)
RegistryEvent(op, tool, name, err, value) ==
    [op |-> op, tool |-> tool, name |-> name, err |-> err, value |-> value]

\* A goroutine's call: the method, its arguments (tool for Register, name
\* for the others, force for InstallTool's options.Force), where it is, the
\* tool InstallTool got from the registry, and the error and value returned
Call(op, tool, name, force, pc, got, err, value) ==
    [op |-> op, tool |-> tool, name |-> name, force |-> force, pc |-> pc, got |-> got,
     err |-> err, value |-> value]

\* pkg/tool: BaseTool.

StInstalling == "Installing"
StUpdating == "Updating"

\* the fields of a BaseTool that Install, Update and Uninstall touch;
\* installTime is "zero" for time.Time{} and "set" for a time.Now()
BaseTool(status, installPath, installMode, installTime) ==
    [status |-> status, installPath |-> installPath, installMode |-> installMode,
     installTime |-> installTime]

\* NewBaseTool: not installed; the zero InstallMode is InstallModeBinary
NewBaseTool == BaseTool(StNotInstalled, Empty, kwBinary, "zero")

\* NewBaseTool's supportedModes
supportedModes == {kwBinary, kwClone, kwSubmodule}

SupportsModeInternal(mode) == mode \in supportedModes

\* getDefaultInstallPath, for a tool named x and a home directory /w
DefaultInstallPath == <<"/", "w", "/", "x">>

InstallOptions(mode, path, force) == [Mode |-> mode, Path |-> path, Force |-> force]

\* the tool after a call, and the error the call returned ("" for nil)
ToolCall(t, err) == [tool |-> t, err |-> err]

\* BaseTool.Install; mkdirOk is whether os.MkdirAll succeeds
Install(t, options, mkdirOk) ==
    IF t.status = StInstalled /\ ~options.Force THEN ToolCall(t, "tool already exists")
    ELSE LET installing == [t EXCEPT !.status = StInstalling]
             placed == [installing EXCEPT
                          !.installMode = options.Mode,
                          !.installTime = "set",
                          !.installPath = IF options.Path /= Empty THEN options.Path
                                          ELSE DefaultInstallPath]
         IN  IF ~SupportsModeInternal(options.Mode)
             THEN ToolCall([installing EXCEPT !.status = StError], "invalid install mode")
             ELSE IF ~mkdirOk
             THEN ToolCall([placed EXCEPT !.status = StError], "install failed")
             ELSE ToolCall([placed EXCEPT !.status = StInstalled], "")

\* an Update that returns before the status is set back
UpdateUnfinished(t) ==
    IF t.status /= StInstalled THEN ToolCall(t, "update failed: tool is not installed")
    ELSE ToolCall([t EXCEPT !.status = StUpdating], "")

\* BaseTool.Update
Update(t) ==
    IF t.status /= StInstalled THEN ToolCall(t, "update failed: tool is not installed")
    ELSE LET updating == [t EXCEPT !.status = StUpdating]
         IN  ToolCall([updating EXCEPT !.status = StInstalled], "")

\* BaseTool.Uninstall; removeOk is whether os.RemoveAll succeeds
Uninstall(t, removeOk) ==
    IF t.status /= StInstalled THEN ToolCall(t, "uninstall failed: tool is not installed")
    ELSE IF t.installPath /= Empty /\ ~removeOk THEN ToolCall(t, "uninstall failed")
    ELSE ToolCall([t EXCEPT !.status = StNotInstalled,
                            !.installPath = Empty,
                            !.installTime = "zero"], "")

\* pkg/tool: ExecuteWithRetry.

\* a wait that ends with the timer whatever the context does
SelectTimerOnly(cancelled) == "timer"

\* select { case <-time.After(...): case <-ctx.Done(): } at the moment it
\* returns: the timer runs for a second or more, so a context that is
\* cancelled by then is what the select returns on
Select(cancelled) == IF cancelled THEN "done" ELSE "timer"

\* ExecuteWithRetry in progress: pc is where it is ("attempt": about to
\* call tool.Execute, "wait": in the select, "returned"), i the loop
\* counter, lastErr the variable, result what it returned; executed lists
\* the error of every tool.Execute call made ("" for nil), cancelled is
\* whether ctx is cancelled, cancelledIn where the call was when that
\* happened and cancelledAfter how many attempts had been made by then
Retry(pc, maxRetries, i, lastErr, result, executed, cancelled, cancelledIn, cancelledAfter) ==
    [pc |-> pc, maxRetries |-> maxRetries, i |-> i, lastErr |-> lastErr, result |-> result,
     executed |-> executed, cancelled |-> cancelled, cancelledIn |-> cancelledIn,
     cancelledAfter |-> cancelledAfter]

-----------------------------------------------------------------------------
(* cmd/main.go: dispatch of a tool command to make.                        *)

kwMake == <<"m", "a", "k", "e">>
ToolFullName == <<"t">>
ToolDir == <<"/", "w", "/", "t">>
KnownCommand == <<"c">>
UnknownCommand == <<"u">>

\* the arguments runMakeCommand hands on to make: those containing "="
RECURSIVE MakeVariables(_)
MakeVariables(args) ==
    IF args = <<>> THEN <<>>
    ELSE (IF Contains(Head(args), <<"=">>) THEN <<Head(args)>> ELSE <<>>)
             \o MakeVariables(Tail(args))

\* makeCmd.Args
MakeArgv(toolPath, toolName, cmdName, args) ==
    <<kwMake, <<"-", "C">>, toolPath, toolName \o <<"-">> \o cmdName>> \o MakeVariables(args)

\* the child process: whether it started, its argv, its exit code
Child(started, argv, exit) == [started |-> started, argv |-> argv, exit |-> exit]

NoChild == Child(FALSE, <<>>, 0)

\* the exit code of the CLI after runMakeCommand: os.Exit(1) when
\* makeCmd.Run() returned an error, else main returns
runMakeCommandExit(c) == IF ~c.started \/ c.exit /= 0 THEN 1 ELSE 0

-----------------------------------------------------------------------------
(* Bounds and input sets.                                                  *)

MaxProducts == 2
MaxTools == 2
MaxLines == 4
MaxHelpLines == 3
MaxExit == 2
MaxRegistered == 2
MaxArgs == 3
MaxBlockLines == 3
MaxRetries == 2

SeqsUpTo(S, n) == UNION {[1..k -> S] : k \in 0..n}

\* arguments handed to AddProduct / RemoveProduct
ProductArgs == {<<"a">>, <<"b">>, Empty, <<SP, "a">>}

\* arguments handed to AddTool / RemoveTool
ToolNames == {<<"x">>, <<"y">>}
ToolModeArgs == {kwBinary, kwClone, <<"z">>}
ToolPathArgs == {<<"p">>, <<"p", SP, "q">>}
ToolVersionArgs == {<<"1">>}

ToolArgs ==
    {ToolEntry(n, m, p, v) :
        n \in ToolNames, m \in ToolModeArgs, p \in ToolPathArgs, v \in ToolVersionArgs}

\* lines the descriptor texts handed to ParseWorkspace are made of
LineVocabulary ==
    { kwNimsforest \o <<SP>> \o DefaultVersion,
      kwOrganization \o <<SP, "o">>,
      kwProducts \o <<SP>> \o OpenParen,
      kwProducts \o OpenParen,
      kwTools \o <<SP>> \o OpenParen,
      kwTools \o OpenParen,
      CloseParen,
      <<"a">>,
      <<SP, SP, "x", SP>> \o kwBinary \o <<SP, "p", SP, "1">>,
      <<"x", SP, "z", SP, "p", SP, "1">>,
      <<"#", SP, "c">>,
      Empty }

\* lines the help outputs handed to parseCommandsFromHelp are made of
HelpVocabulary ==
    { <<"C">> \o SubSeq(kwCommand, 2, 7) \o <<"s", ":">>,
      <<SP, SP, "h", "e", "l", "l", "o", SP, SP, SP, "S", "a", "y", SP, "h", "e", "l", "l", "o">>,
      <<SP, SP, "i", "n", "i", "t", SP, SP, SP, SP, "I", "n", "i", "t", "i", "a", "l", "i", "z", "e">>,
      <<TAB, "l", "i", "n", "t">>,
      <<SP, SP, "-", "-", "v", "=", "1", SP, "x">>,
      <<"U", "s", "a", "g", "e">>,
      Empty }

HelpInputs == {JoinLines(ls) : ls \in SeqsUpTo(HelpVocabulary, MaxHelpLines)}

ParseInputs == {JoinLines(ls) : ls \in SeqsUpTo(LineVocabulary, MaxLines)}

\* the runtime tool's environment: descriptor location, working
\* directories, entry paths and the paths that may exist on disk
WorkspaceFile == <<"/", "w", "/", "f">>
WorkDirs == {<<"/", "w">>, Slash}
EntryPathArgs == {<<"t">>, <<"/", "t">>, <<"t", "/", "x">>}
EntryModeArgs == {kwBinary, kwClone, kwSubmodule, <<"z">>}
ToolName == <<"x">>
OtherName == <<"y">>
ExitCodes == 0..MaxExit

FsPaths ==
    { <<"/", "w", "/", "t">>,
      <<"/", "w", "/", "t", "/", "x">>,
      <<"/", "w", "/", "t", "/", "b", "i", "n", "/", "x">>,
      <<"/", "t">> }

Kinds == {KindNone, KindDir, KindFile, KindExec}

\* a file system is consistent when nothing exists below a regular file
ConsistentFs(files) ==
    \A f, g \in DOMAIN files :
        (files[g] /= KindNone /\ HasPrefix(g, f \o Slash)) => files[f] = KindDir

FileSystems == {files \in [FsPaths -> Kinds] : ConsistentFs(files)}

\* the CLI invocations racing on one descriptor file, and what each adds
Invocations == {1, 2}

ProductJob(path) == [kind |-> "product", arg |-> path]
ToolJob(name) == [kind |-> "tool", arg |-> name]

Jobs == {ProductJob(<<"a">>), ProductJob(<<"b">>), ToolJob(<<"x">>), ToolJob(<<"y">>)}

kwLatest == <<"l", "a", "t", "e", "s", "t">>

\* descriptor files the invocations may find on disk
InitialFiles ==
    { String(NewWorkspace),
      String(AddProduct(NewWorkspace, <<"a">>)),
      String(AddTool(NewWorkspace, ToolEntry(<<"x">>, kwClone, <<"t">>, <<"1">>))) }

\* the entry updateWorkspaceWithBinaryTool adds for a tool job
JobEntry(job) == ToolEntry(job.arg, kwBinary, <<"p">>, kwLatest)

Invocation(pc, job, mem, snap) == [pc |-> pc, job |-> job, mem |-> mem, snap |-> snap]

\* the registry contents and the goroutines of the manager specification
RegNames == 1..MaxRegistered
Statuses == {StInstalled, StNotInstalled, StError}
Registries == [RegNames -> Statuses \cup {StAbsent}]
Threads == {"all", "one"}

\* arguments a user gives to a tool command
ArgVocabulary == {<<"A", "=", "1">>, <<"B", "=">>, <<"v">>}
CliInvocation(cmd, args) == [cmd |-> cmd, args |-> args]

\* the lines a block may hold
ProductLineVocabulary == {<<"a">>, <<SP, SP, "b">>}
ToolLineVocabulary ==
    { <<"x", SP>> \o kwBinary \o <<SP, "p", SP, "1">>,
      <<"x", SP>> \o kwClone \o <<SP, "q", SP, "2">>,
      <<SP, "y", SP, SP>> \o kwBinary \o <<SP, "p", SP, "1">> }

\* a line of a block of keyword kw; fresh: the line starts a block of its
\* own even when the line before it belongs to a block of the same keyword
BlockLine(kw, line, fresh) == [kw |-> kw, line |-> line, fresh |-> fresh]

BlockLineInputs ==
    {BlockLine(kwProducts, l, f) : l \in ProductLineVocabulary, f \in BOOLEAN}
        \cup {BlockLine(kwTools, l, f) : l \in ToolLineVocabulary, f \in BOOLEAN}

\* the text lines of a sequence of block lines, prev being the keyword of
\* the block that is open (Empty for none)
RECURSIVE BlockLines(_, _)
BlockLines(es, prev) ==
    IF es = <<>> THEN (IF prev = Empty THEN <<>> ELSE <<CloseParen>>)
    ELSE LET e == Head(es)
         IN  IF prev = e.kw /\ ~e.fresh
             THEN <<e.line>> \o BlockLines(Tail(es), e.kw)
             ELSE (IF prev = Empty THEN <<>> ELSE <<CloseParen>>)
                      \o <<e.kw \o <<SP>> \o OpenParen, e.line>>
                      \o BlockLines(Tail(es), e.kw)

BlockInputs ==
    {JoinLines(<<kwNimsforest \o <<SP>> \o DefaultVersion>> \o BlockLines(es, Empty)) :
        es \in SeqsUpTo(BlockLineInputs, MaxBlockLines)}

\* the workspaces a program starts from: NewWorkspace(), or what
\* LoadWorkspace returns for a descriptor file
StartWorkspaces ==
    {NewWorkspace} \cup {LoadWorkspace(t, WorkspaceFile).ws : t \in BlockInputs}

-----------------------------------------------------------------------------
(* The state every specification starts the unused parts in.               *)

NotParsed == [ok |-> FALSE, err |-> Err("not parsed", 0, 0, Empty), ws |-> NilWorkspace]

IdleWs == ws = NewWorkspace
IdleParse == content = Empty /\ parsed = NotParsed
IdleHelp == helpOut = Empty /\ commands = <<>>
IdleRt ==
    /\ fs = [f \in FsPaths |-> KindNone]
    /\ cwd = Slash
    /\ onPath = FALSE
    /\ outcome = NoOutcome
IdleMgr ==
    /\ reg = [n \in RegNames |-> StAbsent]
    /\ mu = RWMutex(0, NoThread, FALSE)
    /\ thr = [t \in Threads |-> Thread("idle", 0, <<>>, 0, "")]
    /\ updated = {}
IdleCli ==
    /\ cliArgs = CliInvocation(Empty, <<>>)
    /\ child = NoChild
    /\ cliExit = -1
IdleRace ==
    /\ file = Empty
    /\ inv = [p \in Invocations |-> Invocation("idle", ProductJob(Empty), NilWorkspace, 0)]
    /\ saves = <<>>
\* the value of a variable no operation has written yet
Unused == <<>>

IdleExt ==
    /\ absPaths = Unused
    /\ normalized = Unused
    /\ spawns = Unused
    /\ rmu = Unused
    /\ rtools = Unused
    /\ calls = Unused
    /\ bt = Unused
    /\ retry = Unused
IdleLookup ==
    /\ added = [n \in ToolNames |-> NoEntry]
    /\ lookup = ToolResult(Empty, NilRuntimeTool, "")

-----------------------------------------------------------------------------
(* Specification of the mutators: a Workspace built by NewWorkspace() or   *)
(* loaded from a descriptor, and any sequence of AddProduct,               *)
(* RemoveProduct, AddTool and RemoveTool.                                  *)

InitMut ==
    /\ ws \in StartWorkspaces
    /\ lastOp = (IF ws = NewWorkspace THEN "NewWorkspace" ELSE "LoadWorkspace")
    /\ IdleParse /\ IdleHelp /\ IdleRt /\ IdleRace /\ IdleMgr /\ IdleCli /\ IdleLookup /\ IdleExt

DoAddProduct ==
    \E p \in ProductArgs :
        /\ Len(ws.Products) < MaxProducts \/ InSeq(p, ws.Products)
        /\ ws' = AddProduct(ws, p)
        /\ lastOp' = "AddProduct"
        /\ UNCHANGED <<parseVars, helpVars, rtVars, raceVars, mgrVars, cliVars, lookupVars, extVars>>

DoRemoveProduct ==
    \E p \in ProductArgs :
        /\ ws' = RemoveProduct(ws, p)
        /\ lastOp' = "RemoveProduct"
        /\ UNCHANGED <<parseVars, helpVars, rtVars, raceVars, mgrVars, cliVars, lookupVars, extVars>>

DoAddTool ==
    \E t \in ToolArgs :
        /\ Len(ws.Tools) < MaxTools \/ HasTool(ws, t.Name)
        /\ ws' = AddTool(ws, t)
        /\ lastOp' = "AddTool"
        /\ UNCHANGED <<parseVars, helpVars, rtVars, raceVars, mgrVars, cliVars, lookupVars, extVars>>

DoRemoveTool ==
    \E n \in ToolNames :
        /\ ws' = RemoveTool(ws, n)
        /\ lastOp' = "RemoveTool"
        /\ UNCHANGED <<parseVars, helpVars, rtVars, raceVars, mgrVars, cliVars, lookupVars, extVars>>

NextMut == DoAddProduct \/ DoRemoveProduct \/ DoAddTool \/ DoRemoveTool

SpecMut == InitMut /\ [][NextMut]_vars

-----------------------------------------------------------------------------
(* Specification of the parser: ParseWorkspace applied to a bounded text.  *)

InitParse ==
    /\ content \in ParseInputs
    /\ parsed = NotParsed
    /\ lastOp = "input"
    /\ IdleWs /\ IdleHelp /\ IdleRt /\ IdleRace /\ IdleMgr /\ IdleCli /\ IdleLookup /\ IdleExt

DoParseWorkspace ==
    /\ lastOp = "input"
    /\ parsed' = ParseWorkspace(content)
    /\ lastOp' = "ParseWorkspace"
    /\ UNCHANGED <<ws, content, helpVars, rtVars, raceVars, mgrVars, cliVars, lookupVars, extVars>>

NextParse == DoParseWorkspace

SpecParse == InitParse /\ [][NextParse]_vars

-----------------------------------------------------------------------------
(* Specification of the runtime tool: one tool entry in a workspace, a     *)
(* file system, and the operations of RuntimeTool and Manager on them.     *)

InitRt ==
    /\ \E m \in EntryModeArgs, p \in EntryPathArgs, f \in {Empty, WorkspaceFile} :
          ws = [AddTool(NewWorkspace, ToolEntry(ToolName, m, p, <<"1">>))
                    EXCEPT !.FilePath = f]
    /\ fs \in FileSystems
    /\ cwd \in WorkDirs
    /\ onPath \in BOOLEAN
    /\ outcome = NoOutcome
    /\ lastOp = "input"
    /\ IdleParse /\ IdleHelp /\ IdleRace /\ IdleMgr /\ IdleCli /\ IdleLookup /\ IdleExt

\* rt.GetExecutablePath()
DoGetExecutablePath ==
    /\ LET r == GetExecutablePath(ws.Tools[1], ws, fs, cwd)
       IN  outcome' = Outcome("GetExecutablePath", r.path, r.err, FALSE, 0)
    /\ lastOp' = "GetExecutablePath"
    /\ UNCHANGED <<ws, parseVars, helpVars, fs, cwd, onPath, raceVars, mgrVars, cliVars, lookupVars, extVars>>

\* rt.Validate(ctx)
DoValidate ==
    /\ LET r == GetExecutablePath(ws.Tools[1], ws, fs, cwd)
       IN  outcome' = Outcome("Validate", r.path, Validate(ws.Tools[1], ws, fs, cwd), FALSE, 0)
    /\ lastOp' = "Validate"
    /\ UNCHANGED <<ws, parseVars, helpVars, fs, cwd, onPath, raceVars, mgrVars, cliVars, lookupVars, extVars>>

\* rt.Execute(ctx, command, args)
DoExecute ==
    \E exit \in ExitCodes :
        /\ outcome' = Execute(ws.Tools[1], ws, fs, cwd, onPath, exit)
        /\ lastOp' = "Execute"
        /\ UNCHANGED <<ws, parseVars, helpVars, fs, cwd, onPath, raceVars, mgrVars, cliVars, lookupVars, extVars>>

\* Manager.ExecuteCommand(ctx, toolName, command, args)
DoExecuteCommand ==
    \E toolName \in {ToolName, OtherName}, exit \in ExitCodes :
        /\ outcome' =
              IF ~HasTool(ws, toolName)
              THEN Outcome("ExecuteCommand", Empty, "tool not found in workspace", FALSE, 0)
              ELSE [Execute(ws.Tools[ToolIndex(ws.Tools, toolName)], ws, fs, cwd, onPath, exit)
                       EXCEPT !.op = "ExecuteCommand"]
        /\ lastOp' = "ExecuteCommand"
        /\ UNCHANGED <<ws, parseVars, helpVars, fs, cwd, onPath, raceVars, mgrVars, cliVars, lookupVars, extVars>>

NextRt == DoGetExecutablePath \/ DoValidate \/ DoExecute \/ DoExecuteCommand

SpecRt == InitRt /\ [][NextRt]_vars

-----------------------------------------------------------------------------
(* Specification of concurrent CLI invocations: each runs                  *)
(* addProductToWorkspace or updateWorkspaceWithBinaryTool, that is         *)
(* LoadWorkspace, then the mutation, then Save, on the same file; the      *)
(* steps of different invocations interleave freely.                       *)

InitRace ==
    /\ file \in InitialFiles
    /\ inv \in {[p \in Invocations |-> Invocation("start", j[p], NilWorkspace, 0)] :
                   j \in [Invocations -> Jobs]}
    /\ saves = <<>>
    /\ lastOp = "input"
    /\ IdleWs /\ IdleParse /\ IdleHelp /\ IdleRt /\ IdleMgr /\ IdleCli /\ IdleLookup /\ IdleExt

\* ws, err := workspace.LoadWorkspace(workspaceFile)
RaceLoad(p) ==
    /\ inv[p].pc = "start"
    /\ LET r == LoadWorkspace(file, WorkspaceFile)
       IN  inv' = [inv EXCEPT ![p].pc = IF r.ok THEN "loaded" ELSE "failed",
                              ![p].mem = r.ws,
                              ![p].snap = Len(saves)]
    /\ lastOp' = "LoadWorkspace"
    /\ UNCHANGED <<ws, parseVars, helpVars, rtVars, file, saves, mgrVars, cliVars, lookupVars, extVars>>

\* the mutation between load and save: ws.AddProduct (skipped, with an
\* early return, when the product is already listed) or ws.AddTool
RaceMutate(p) ==
    /\ inv[p].pc = "loaded"
    /\ inv' = IF inv[p].job.kind = "product"
              THEN IF InSeq(inv[p].job.arg, inv[p].mem.Products)
                   THEN [inv EXCEPT ![p].pc = "done"]
                   ELSE [inv EXCEPT ![p].pc = "mutated",
                                    ![p].mem = AddProduct(@, inv[p].job.arg)]
              ELSE [inv EXCEPT ![p].pc = "mutated",
                               ![p].mem = AddTool(@, JobEntry(inv[p].job))]
    /\ lastOp' = "Mutate"
    /\ UNCHANGED <<ws, parseVars, helpVars, rtVars, file, saves, mgrVars, cliVars, lookupVars, extVars>>

\* ws.Save(workspaceFile)
RaceSave(p) ==
    /\ inv[p].pc = "mutated"
    /\ file' = WriteFile(file, String(inv[p].mem))
    /\ inv' = [inv EXCEPT ![p].pc = "done"]
    /\ saves' = Append(saves, p)
    /\ lastOp' = "Save"
    /\ UNCHANGED <<ws, parseVars, helpVars, rtVars, mgrVars, cliVars, lookupVars, extVars>>

NextRace == \E p \in Invocations : RaceLoad(p) \/ RaceMutate(p) \/ RaceSave(p)

SpecRace == InitRace /\ [][NextRace]_vars

-----------------------------------------------------------------------------
(* Specification of the tool manager: goroutine "all" calls                *)
(* DefaultManager.UpdateAll, goroutine "one" calls DefaultManager.         *)
(* UpdateTool for one tool, on a registry with any contents.               *)

notMgr == <<ws, parseVars, helpVars, rtVars, raceVars, cliVars, lookupVars, extVars>>

InitMgr ==
    /\ reg \in Registries
    /\ mu = RWMutex(0, NoThread, FALSE)
    /\ \E n \in RegNames :
          thr = [t \in Threads |->
                    IF t = "all" THEN Thread("start", 0, <<>>, 0, "")
                    ELSE Thread("ut_lock", n, <<>>, 0, "")]
    /\ updated = {}
    /\ lastOp = "input"
    /\ IdleWs /\ IdleParse /\ IdleHelp /\ IdleRt /\ IdleRace /\ IdleCli /\ IdleLookup /\ IdleExt

\* UpdateAll: m.mu.RLock(); tools := m.registry.List()
UpdateAllRLock ==
    /\ thr["all"].pc = "start"
    /\ CanRLock(mu)
    /\ mu' = RLock(mu)
    /\ thr' = [thr EXCEPT !["all"].pc = "loop",
                          !["all"].tools = ListFrom(reg, 1, MaxRegistered),
                          !["all"].i = 1]
    /\ lastOp' = "UpdateAll.RLock"
    /\ UNCHANGED <<notMgr, reg, updated>>

\* UpdateAll: one iteration of the loop, up to the call of m.UpdateTool
UpdateAllLoop ==
    /\ thr["all"].pc = "loop"
    /\ LET a == thr["all"]
       IN  thr' = IF a.i > Len(a.tools)
                  THEN [thr EXCEPT !["all"].pc = "runlock"]
                  ELSE IF reg[a.tools[a.i]] = StInstalled
                  THEN [thr EXCEPT !["all"].pc = "ut_lock", !["all"].name = a.tools[a.i]]
                  ELSE [thr EXCEPT !["all"].i = a.i + 1]
    /\ lastOp' = "UpdateAll.loop"
    /\ UNCHANGED <<notMgr, reg, mu, updated>>

\* UpdateTool: m.mu.Lock(), taking the writer slot
UpdateToolLock(t) ==
    /\ thr[t].pc = "ut_lock"
    /\ CanLockSlot(mu)
    /\ mu' = LockSlot(mu, t)
    /\ thr' = [thr EXCEPT ![t].pc = "ut_wait"]
    /\ lastOp' = "UpdateTool.Lock"
    /\ UNCHANGED <<notMgr, reg, updated>>

\* UpdateTool: m.mu.Lock(), returning once no reader holds the mutex
UpdateToolLocked(t) ==
    /\ thr[t].pc = "ut_wait"
    /\ CanLockAcquire(mu, t)
    /\ mu' = LockAcquire(mu)
    /\ thr' = [thr EXCEPT ![t].pc = "ut_body"]
    /\ lastOp' = "UpdateTool.Locked"
    /\ UNCHANGED <<notMgr, reg, updated>>

\* UpdateTool: the body under the lock (registry.Get, the status check,
\* tool.Update) and the deferred Unlock; then the return into the caller
UpdateToolBody(t) ==
    /\ thr[t].pc = "ut_body"
    /\ LET e == UpdateToolError(reg, thr[t].name)
       IN  /\ updated' = IF e = "" THEN updated \cup {thr[t].name} ELSE updated
           /\ thr' = IF t = "one" THEN [thr EXCEPT ![t].pc = "returned", ![t].err = e]
                     ELSE IF e /= "" THEN [thr EXCEPT ![t].pc = "runlock", ![t].err = e]
                     ELSE [thr EXCEPT ![t].pc = "loop", ![t].i = @ + 1]
    /\ mu' = Unlock(mu)
    /\ lastOp' = "UpdateTool"
    /\ UNCHANGED <<notMgr, reg>>

\* UpdateAll: the deferred m.mu.RUnlock() and the return
UpdateAllReturn ==
    /\ thr["all"].pc = "runlock"
    /\ mu' = RUnlock(mu)
    /\ thr' = [thr EXCEPT !["all"].pc = "returned"]
    /\ lastOp' = "UpdateAll"
    /\ UNCHANGED <<notMgr, reg, updated>>

ThreadStep(t) ==
    \/ t = "all" /\ (UpdateAllRLock \/ UpdateAllLoop \/ UpdateAllReturn)
    \/ UpdateToolLock(t) \/ UpdateToolLocked(t) \/ UpdateToolBody(t)

NextMgr ==
    \/ UpdateAllRLock
    \/ UpdateAllLoop
    \/ UpdateAllReturn
    \/ \E t \in Threads : UpdateToolLock(t)
    \/ \E t \in Threads : UpdateToolLocked(t)
    \/ \E t \in Threads : UpdateToolBody(t)

SpecMgr == InitMgr /\ [][NextMgr]_vars

\* the Go scheduler runs every goroutine that can take a step
FairSpecMgr == SpecMgr /\ \A t \in Threads : WF_vars(ThreadStep(t))

-----------------------------------------------------------------------------
(* Specification of the CLI: `nimsforestpm <tool> <command> args...`       *)
(* dispatched by main to runMakeCommand.                                   *)

notCli == <<ws, parseVars, helpVars, rtVars, raceVars, mgrVars, lookupVars, extVars>>

InitCli ==
    /\ cliArgs \in {CliInvocation(c, a) :
                       c \in {KnownCommand, UnknownCommand},
                       a \in SeqsUpTo(ArgVocabulary, MaxArgs)}
    /\ child = NoChild
    /\ cliExit = -1
    /\ lastOp = "input"
    /\ IdleWs /\ IdleParse /\ IdleHelp /\ IdleRt /\ IdleRace /\ IdleMgr /\ IdleLookup /\ IdleExt

\* main -> rootCmd.Execute() -> runMakeCommand: make is run and waited for
DoRunMakeCommand ==
    /\ cliExit = -1
    /\ cliArgs.cmd = KnownCommand
    /\ \E started \in BOOLEAN, exit \in ExitCodes :
          /\ started \/ exit = 0
          /\ child' = Child(started,
                            MakeArgv(ToolDir, ToolFullName, cliArgs.cmd, cliArgs.args), exit)
          /\ cliExit' = runMakeCommandExit(child')
    /\ lastOp' = "runMakeCommand"
    /\ UNCHANGED <<notCli, cliArgs>>

\* main: rootCmd.Execute() returns an error (no such command), os.Exit(1)
DoMainError ==
    /\ cliExit = -1
    /\ cliArgs.cmd = UnknownCommand
    /\ cliExit' = 1
    /\ lastOp' = "main"
    /\ UNCHANGED <<notCli, cliArgs, child>>

NextCli == DoRunMakeCommand \/ DoMainError

SpecCli == InitCli /\ [][NextCli]_vars

-----------------------------------------------------------------------------
(* C1: round trip.  For every Workspace reachable from NewWorkspace() by   *)
(* AddProduct, RemoveProduct, AddTool and RemoveTool, parsing its          *)
(* serialization succeeds and gives back the same version, organization,   *)
(* products (in order) and tools.                                          *)
C1_RoundTrip ==
    LET r == ParseWorkspace(String(ws))
    IN  /\ r.ok
        /\ r.ws.Version = ws.Version
        /\ r.ws.Organization = ws.Organization
        /\ r.ws.Products = ws.Products
        /\ r.ws.Tools = ws.Tools

-----------------------------------------------------------------------------
(* C5: every error ParseWorkspace returns for a grammar violation carries  *)
(* the 1-based number, within the input text, of the line that caused it:  *)
(* the message holds a number n, line n exists in the input, and line n is *)
(* the line (or holds the field) the message quotes.  The empty input,     *)
(* which has no line to name, is left out.                                 *)
C5_CarriedLine(e) == IF e.line /= 0 THEN e.line ELSE e.at

C5_ErrorCarriesLineNumber ==
    (lastOp = "ParseWorkspace" /\ content /= Empty /\ ~parsed.ok) =>
        LET lines == SplitLines(content)
            n == C5_CarriedLine(parsed.err)
        IN  /\ n \in 1..Len(lines)
            /\ \/ parsed.err.got = TrimSpace(lines[n])
               \/ InSeq(parsed.err.got, Fields(lines[n]))

-----------------------------------------------------------------------------
(* C6: the space between the block keyword and the parenthesis is          *)
(* optional.  C6_Spaced rewrites every header line `products(` / `tools(`  *)
(* of a text to `products (` / `tools (`; whenever the rewritten text      *)
(* parses, the text itself parses to the same model.                       *)
C6_IsOpener(line) ==
    \E kw \in {kwProducts, kwTools} :
        line = kw \o OpenParen \/ line = kw \o <<SP>> \o OpenParen

RECURSIVE C6_SpacedLines(_, _, _)
C6_SpacedLines(lines, i, inBlock) ==
    IF i > Len(lines) THEN <<>>
    ELSE LET line == TrimSpace(lines[i])
             out == IF ~inBlock /\ line = kwProducts \o OpenParen
                    THEN kwProducts \o <<SP>> \o OpenParen
                    ELSE IF ~inBlock /\ line = kwTools \o OpenParen
                    THEN kwTools \o <<SP>> \o OpenParen
                    ELSE lines[i]
             nowIn == IF inBlock THEN line /= CloseParen ELSE C6_IsOpener(line)
         IN  <<out>> \o C6_SpacedLines(lines, i + 1, nowIn)

C6_Spaced(text) == JoinLines(C6_SpacedLines(SplitLines(text), 1, FALSE))

C6_CompactOpenerAccepted ==
    lastOp = "ParseWorkspace" =>
        LET spaced == ParseWorkspace(C6_Spaced(content))
        IN  spaced.ok => (parsed.ok /\ parsed.ws = spaced.ws)

-----------------------------------------------------------------------------
(* Specification of command discovery: parseCommandsFromHelp applied to a  *)
(* bounded help output.                                                    *)

InitHelp ==
    /\ helpOut \in HelpInputs
    /\ commands = <<>>
    /\ lastOp = "input"
    /\ IdleWs /\ IdleParse /\ IdleRt /\ IdleRace /\ IdleMgr /\ IdleCli /\ IdleLookup /\ IdleExt

DoParseCommands ==
    /\ lastOp = "input"
    /\ commands' = parseCommandsFromHelp(helpOut)
    /\ lastOp' = "parseCommandsFromHelp"
    /\ UNCHANGED <<ws, parseVars, helpOut, rtVars, raceVars, mgrVars, cliVars, lookupVars, extVars>>

NextHelp == DoParseCommands

SpecHelp == InitHelp /\ [][NextHelp]_vars

-----------------------------------------------------------------------------
(* C2: command discovery.  After a line containing "command" (in any case) *)
(* and ":", every following indented line contributes its first token,     *)
(* when made of letters, digits, '-' and '_' only, in order, until a blank *)
(* or non-indented line; so `Commands:`, `  hello   Say hello`,            *)
(* `  init    Initialize` gives <<hello, init>>.                           *)
C2_IsHeader(raw) == Contains(ToLower(raw), kwCommand) /\ Contains(raw, <<":">>)

C2_IsIndented(raw) ==
    TrimSpace(raw) /= Empty /\ (HasPrefix(raw, <<SP>>) \/ HasPrefix(raw, <<TAB>>))

RECURSIVE C2_Section(_, _, _)
C2_Section(lines, i, inSection) ==
    IF i > Len(lines) THEN <<>>
    ELSE IF C2_IsHeader(lines[i]) THEN C2_Section(lines, i + 1, TRUE)
    ELSE IF ~inSection THEN C2_Section(lines, i + 1, FALSE)
    ELSE IF ~C2_IsIndented(lines[i]) THEN <<>>
    ELSE LET token == Fields(lines[i])[1]
         IN  (IF isValidCommandName(token) THEN <<token>> ELSE <<>>)
                 \o C2_Section(lines, i + 1, TRUE)

C2_DiscoversCommands ==
    lastOp = "parseCommandsFromHelp" =>
        commands = C2_Section(SplitLines(helpOut), 1, FALSE)

-----------------------------------------------------------------------------
(* C3: validate before spawn.  Execute and ExecuteCommand never start a    *)
(* child process when the resolved executable path does not exist or, for  *)
(* mode binary, has no executable bit: they fail with a validation error.  *)
C3_MustNotSpawn ==
    LET e == ws.Tools[1]
        kind == Stat(fs, cwd, outcome.path)
    IN  ~StatOk(kind) \/ (e.Mode = kwBinary /\ ~HasExecBit(kind))

C3_IsValidationError(err) ==
    err \in {"tool path does not exist", "tool binary is not executable"}

C3_ValidateBeforeSpawn ==
    (/\ outcome.op \in {"Execute", "ExecuteCommand"}
     /\ outcome.err \notin {"unsupported tool mode", "tool not found in workspace"}
     /\ C3_MustNotSpawn)
        => (~outcome.spawned /\ C3_IsValidationError(outcome.err))

-----------------------------------------------------------------------------
(* C4: a tool entry's path is relative to the descriptor's directory       *)
(* unless absolute.  With sourcePath set, the executable location lies     *)
(* under dir(sourcePath)/entry.path for a relative entry.path and under    *)
(* entry.path itself for an absolute one.                                  *)
C4_Under(p, base) == p = base \/ HasPrefix(p, base \o Slash)

C4_PathRelativeToDescriptor ==
    (/\ outcome.op = "GetExecutablePath"
     /\ outcome.err = ""
     /\ ws.FilePath /= Empty)
        => LET e == ws.Tools[1]
           IN  IF IsAbs(e.Path)
               THEN C4_Under(outcome.path, Clean(e.Path))
               ELSE C4_Under(outcome.path, Join(Dir(ws.FilePath), e.Path))

-----------------------------------------------------------------------------
(* C10: for mode clone or submodule with sourcePath set, GetExecutablePath *)
(* returns <resolved>/<name> if that exists as a file, otherwise           *)
(* <resolved>/bin/<name> if that exists as a file, otherwise <resolved>;   *)
(* without sourcePath it returns entry.path unchanged.  Stated for a       *)
(* relative entry.path, where <resolved> is dir(sourcePath)/entry.path.    *)
C10_IsFile(p) == Stat(fs, cwd, p) \in {KindFile, KindExec}

C10_SearchOrder ==
    LET e == ws.Tools[1]
        resolved == Join(Dir(ws.FilePath), e.Path)
        direct == Join(resolved, e.Name)
        inBin == Join(Join(resolved, kwBin), e.Name)
    IN  (/\ outcome.op = "GetExecutablePath"
         /\ e.Mode \in {kwClone, kwSubmodule}
         /\ ~IsAbs(e.Path))
            => /\ outcome.err = ""
               /\ outcome.path =
                     IF ws.FilePath = Empty THEN e.Path
                     ELSE IF C10_IsFile(direct) THEN direct
                     ELSE IF C10_IsFile(inBin) THEN inBin
                     ELSE resolved

-----------------------------------------------------------------------------
(* C7: lost update.  When every invocation has completed without error and *)
(* the invocation that saved last had loaded the file before invocation p  *)
(* saved, the final file is exactly the last writer's model: it holds the  *)
(* last writer's change and not p's (last writer wins, no error).          *)
C7_Holds(w, job) ==
    IF job.kind = "product" THEN InSeq(job.arg, w.Products)
    ELSE InSeq(JobEntry(job), w.Tools)

C7_AllDone == \A p \in Invocations : inv[p].pc = "done"

C7_SavedAt(p) == CHOOSE i \in 1..Len(saves) : saves[i] = p

C7_LostUpdate ==
    (C7_AllDone /\ Len(saves) > 0) =>
        LET last == saves[Len(saves)]
            final == ParseWorkspace(file)
        IN  /\ final.ok
            /\ file = String(inv[last].mem)
            /\ C7_Holds(final.ws, inv[last].job)
            /\ \A p \in Invocations \ {last} :
                  (/\ InSeq(p, saves)
                   /\ inv[last].snap < C7_SavedAt(p)
                   /\ inv[p].job /= inv[last].job)
                      => ~C7_Holds(final.ws, inv[p].job)

\* both invocations completed without error, both saved, and the file
\* holds only the change of the one that saved last
C7_Witness ==
    /\ C7_AllDone
    /\ Len(saves) = 2
    /\ C7_Holds(ParseWorkspace(file).ws, inv[saves[2]].job)
    /\ ~C7_Holds(ParseWorkspace(file).ws, inv[saves[1]].job)

-----------------------------------------------------------------------------
(* C8: UpdateAll updates all installed tools.  For any registry contents   *)
(* the call terminates, and when it returns nil, Update has been invoked   *)
(* on every registered tool whose status is Installed.                     *)
C8_Returned == thr["all"].pc = "returned"

C8_AllInstalledUpdated ==
    \A n \in RegNames : reg[n] = StInstalled => n \in updated

C8_UpdateAllTerminates ==
    /\ <>C8_Returned
    /\ []((C8_Returned /\ thr["all"].err = "") => C8_AllInstalledUpdated)

-----------------------------------------------------------------------------
(* C9: when the dispatched tool subprocess exits with a non-zero code N,   *)
(* the CLI process exits with the same code N.                             *)
C9_ExitCodePropagated ==
    (lastOp = "runMakeCommand" /\ child.started /\ child.exit /= 0)
        => cliExit = child.exit

-----------------------------------------------------------------------------
(* C11: for a binary-mode entry, whose executable path is entry.path       *)
(* unchanged, Validate succeeds if and only if that path exists and has an *)
(* executable permission bit set.                                          *)

\* what the file system holds at p, read off fs without os.Stat
C11_Entry(p) ==
    LET q == Resolve(cwd, p)
    IN  IF q \in DOMAIN fs THEN fs[q]
        ELSE IF \E f \in DOMAIN fs : fs[f] /= KindNone /\ HasPrefix(f, q \o Slash)
        THEN KindDir
        ELSE KindNone

C11_ExistsExecutable(p) == C11_Entry(p) \in {KindDir, KindExec}

C11_ValidateBinary ==
    (outcome.op = "Validate" /\ ws.Tools[1].Mode = kwBinary)
        => /\ outcome.path = ws.Tools[1].Path
           /\ (outcome.err = "") <=> C11_ExistsExecutable(ws.Tools[1].Path)

\* Validate accepted a binary entry whose path is an executable regular file
C11_Witness ==
    /\ outcome.op = "Validate"
    /\ ws.Tools[1].Mode = kwBinary
    /\ outcome.err = ""
    /\ C11_Entry(ws.Tools[1].Path) = KindExec

-----------------------------------------------------------------------------
(* Specification of the parser on descriptors made of blocks: a version    *)
(* line followed by products and tools blocks, each closed, in any order.  *)

InitBlocks ==
    /\ content \in BlockInputs
    /\ parsed = NotParsed
    /\ lastOp = "input"
    /\ IdleWs /\ IdleHelp /\ IdleRt /\ IdleRace /\ IdleMgr /\ IdleCli /\ IdleLookup /\ IdleExt

SpecBlocks == InitBlocks /\ [][NextParse]_vars

-----------------------------------------------------------------------------
(* C12: parsing and programmatic mutation agree.  For any input that       *)
(* parses, Products and Tools equal those obtained from an empty workspace *)
(* by calling AddProduct on each product line and AddTool on each tool     *)
(* line in input order, also when the lines are spread over several        *)
(* blocks.                                                                 *)

\* the mutator calls made line by line, in one pass over the input
RECURSIVE C12_Mutate(_, _, _, _)
C12_Mutate(lines, i, section, w) ==
    IF i > Len(lines) THEN w
    ELSE LET line == TrimSpace(lines[i])
             parts == Fields(line)
         IN  IF line = Empty \/ line[1] = "#" THEN C12_Mutate(lines, i + 1, section, w)
             ELSE IF section = "none"
             THEN C12_Mutate(lines, i + 1,
                      IF parts = <<kwProducts, OpenParen>> THEN "products"
                      ELSE IF parts = <<kwTools, OpenParen>> THEN "tools"
                      ELSE "none", w)
             ELSE IF line = CloseParen THEN C12_Mutate(lines, i + 1, "none", w)
             ELSE IF section = "products"
             THEN C12_Mutate(lines, i + 1, section, AddProduct(w, line))
             ELSE C12_Mutate(lines, i + 1, section,
                      AddTool(w, ToolEntry(parts[1], parts[2], parts[3], parts[4])))

C12_ParseAgreesWithMutators ==
    (lastOp = "ParseWorkspace" /\ parsed.ok)
        => LET w == C12_Mutate(SplitLines(content), 1, "none", NewWorkspace)
           IN  /\ parsed.ws.Products = w.Products
               /\ parsed.ws.Tools = w.Tools

\* a parsed input with two blocks of one kind, the second of which repeats a
\* product or a tool name of the first
C12_Witness ==
    /\ lastOp = "ParseWorkspace"
    /\ parsed.ok
    /\ LET lines == SplitLines(content)
       IN  \E i, j, k, l \in 1..Len(lines) :
               /\ i < j /\ j < k /\ k < l
               /\ lines[i] = lines[l]
               /\ lines[j] = CloseParen
               /\ lines[k] = lines[2]
               /\ lines[i] \notin {CloseParen, lines[k]}

-----------------------------------------------------------------------------
(* C13: ParseWorkspace succeeds only if the first non-comment, non-blank   *)
(* line of the input is a valid version line, `nimsforest                  *)
(* <digits>.<digits>`; any other first such line, and an input without a   *)
(* version line, is a fatal format error and no workspace is returned.     *)

C13_Significant(raw) ==
    LET line == TrimSpace(raw) IN line /= Empty /\ line[1] /= "#"

C13_IsVersionLine(raw) ==
    LET parts == Fields(raw)
    IN  Len(parts) = 2 /\ parts[1] = kwNimsforest /\ VersionMatches(parts[2])

C13_VersionLineRequired ==
    lastOp = "ParseWorkspace" =>
        LET lines == SplitLines(content)
        IN  /\ parsed.ok =>
                   \E i \in 1..Len(lines) :
                       /\ C13_IsVersionLine(lines[i])
                       /\ \A j \in 1..(i - 1) : ~C13_Significant(lines[j])
            /\ ~parsed.ok => parsed.ws = NilWorkspace

-----------------------------------------------------------------------------
(* C14: reaching the end of the input while a `products (` or `tools (`    *)
(* block is still open makes ParseWorkspace fail with an error that names  *)
(* the section left unclosed, whatever lines the open block contains.      *)

\* the input is a text that has a version line and parses, followed by an
\* opener of a block of keyword kw and by lines none of which closes the block
C14_LeftOpen(kw) ==
    LET lines == SplitLines(content)
    IN  \E k \in 2..Len(lines) :
            /\ Fields(lines[k]) = <<kw, OpenParen>>
            /\ \E j \in 1..(k - 1) : C13_IsVersionLine(lines[j])
            /\ ParseWorkspace(JoinLines(SubSeq(lines, 1, k - 1))).ok
            /\ \A j \in (k + 1)..Len(lines) : TrimSpace(lines[j]) /= CloseParen

C14_UnclosedSectionNamed ==
    lastOp = "ParseWorkspace" =>
        /\ C14_LeftOpen(kwProducts) =>
               (~parsed.ok /\ parsed.err.msg = "products section not properly closed")
        /\ C14_LeftOpen(kwTools) =>
               (~parsed.ok /\ parsed.err.msg = "tools section not properly closed")

-----------------------------------------------------------------------------
(* C15: every line inside a tools block (blank and comment lines aside,    *)
(* which are ignored everywhere) must have exactly 4 whitespace-separated  *)
(* fields with a mode of binary, clone or submodule; any other tool line   *)
(* makes ParseWorkspace fail, so every tool entry of a successfully parsed *)
(* workspace has a non-empty name, one of the three modes, a path and a    *)
(* version.                                                                *)

\* the numbers of the lines that lie inside a tools block
RECURSIVE C15_ToolLineNumbers(_, _, _)
C15_ToolLineNumbers(lines, i, section) ==
    IF i > Len(lines) THEN {}
    ELSE LET line == TrimSpace(lines[i])
         IN  IF ~C13_Significant(lines[i]) THEN C15_ToolLineNumbers(lines, i + 1, section)
             ELSE IF section = "none"
             THEN C15_ToolLineNumbers(lines, i + 1,
                      IF Fields(line) = <<kwTools, OpenParen>> THEN "tools"
                      ELSE IF Fields(line) = <<kwProducts, OpenParen>> THEN "products"
                      ELSE "none")
             ELSE IF line = CloseParen THEN C15_ToolLineNumbers(lines, i + 1, "none")
             ELSE (IF section = "tools" THEN {i} ELSE {})
                      \cup C15_ToolLineNumbers(lines, i + 1, section)

C15_WellFormedLine(raw) ==
    LET parts == Fields(raw)
    IN  Len(parts) = 4 /\ parts[2] \in {kwBinary, kwClone, kwSubmodule}

C15_WellFormedEntry(t) ==
    /\ t.Name /= Empty
    /\ t.Mode \in {kwBinary, kwClone, kwSubmodule}
    /\ t.Path /= Empty
    /\ t.Version /= Empty

C15_ToolLinesWellFormed ==
    (lastOp = "ParseWorkspace" /\ parsed.ok)
        => LET lines == SplitLines(content)
           IN  /\ \A i \in C15_ToolLineNumbers(lines, 1, "none") :
                      C15_WellFormedLine(lines[i])
               /\ \A k \in 1..Len(parsed.ws.Tools) :
                      C15_WellFormedEntry(parsed.ws.Tools[k])

\* a descriptor with a tool line was parsed
C15_Witness ==
    /\ lastOp = "ParseWorkspace"
    /\ parsed.ok
    /\ C15_ToolLineNumbers(SplitLines(content), 1, "none") /= {}
    /\ Len(parsed.ws.Tools) > 0

-----------------------------------------------------------------------------
(* C16: tool names are unique and AddTool is an in-place upsert.  After    *)
(* any sequence of AddTool / RemoveTool calls no two entries of Tools      *)
(* share a name; AddTool with an existing name replaces that entry at its  *)
(* position and leaves every other entry and the length unchanged; AddTool *)
(* with a new name appends the entry at the end.                           *)

C16_UniqueNames(ts) ==
    \A i, j \in 1..Len(ts) : ts[i].Name = ts[j].Name => i = j

C16_Upserted(before, after, t) ==
    IF \E i \in 1..Len(before) : before[i].Name = t.Name
    THEN /\ Len(after) = Len(before)
         /\ \A i \in 1..Len(before) :
                after[i] = IF before[i].Name = t.Name THEN t ELSE before[i]
    ELSE /\ Len(after) = Len(before) + 1
         /\ after[Len(after)] = t
         /\ \A i \in 1..Len(before) : after[i] = before[i]

C16_AddToolUpserts ==
    /\ C16_UniqueNames(ws.Tools)
    /\ \A t \in ToolArgs :
           LET after == AddTool(ws, t)
           IN  /\ C16_Upserted(ws.Tools, after.Tools, t)
               /\ C16_UniqueNames(after.Tools)
               /\ after = [ws EXCEPT !.Tools = after.Tools]

\* AddTool has acted on a workspace that holds two tools, the one added
\* first in second position
C16_Witness ==
    /\ lastOp = "AddTool"
    /\ Len(ws.Tools) = 2
    /\ ws.Tools[1].Name = <<"y">>
    /\ ws.Tools[2] \in ToolArgs

-----------------------------------------------------------------------------
(* C17: Products never contain duplicates.  Starting from NewWorkspace()   *)
(* or from a ParseWorkspace result, after any sequence of AddProduct /     *)
(* RemoveProduct calls every path occurs at most once in Products;         *)
(* AddProduct(p) leaves Products unchanged when p is present and otherwise *)
(* appends p after the existing entries.                                   *)

C17_NoDuplicates(ps) ==
    \A i, j \in 1..Len(ps) : ps[i] = ps[j] => i = j

C17_ProductsUnique ==
    /\ C17_NoDuplicates(ws.Products)
    /\ \A p \in ProductArgs :
           LET after == AddProduct(ws, p)
           IN  /\ (\E i \in 1..Len(ws.Products) : ws.Products[i] = p)
                      => after.Products = ws.Products
               /\ (\A i \in 1..Len(ws.Products) : ws.Products[i] /= p)
                      => after.Products = ws.Products \o <<p>>
               /\ after = [ws EXCEPT !.Products = after.Products]

\* AddProduct has acted on a workspace that holds two products
C17_Witness ==
    /\ lastOp = "AddProduct"
    /\ Len(ws.Products) = 2

-----------------------------------------------------------------------------
(* C18: RemoveProduct(p) removes the first exact match of p and keeps all  *)
(* other products in their original relative order; when p is absent it is *)
(* a no-op that changes no field of the workspace and reports no error.    *)
(* RemoveProduct has no result, so no error can be reported.               *)

\* after is before without its element number i
C18_Without(before, after, i) ==
    /\ Len(after) = Len(before) - 1
    /\ \A j \in 1..Len(after) : after[j] = IF j < i THEN before[j] ELSE before[j + 1]

C18_Removed(w, p) ==
    LET after == RemoveProduct(w, p)
    IN  /\ after = [w EXCEPT !.Products = after.Products]
        /\ IF \A i \in 1..Len(w.Products) : w.Products[i] /= p
           THEN after = w
           ELSE \E i \in 1..Len(w.Products) :
                    /\ w.Products[i] = p
                    /\ \A j \in 1..(i - 1) : w.Products[j] /= p
                    /\ C18_Without(w.Products, after.Products, i)

\* product lists as a Workspace literal may hold them, repetitions included
C18_ProductLists == SeqsUpTo({<<"a">>, <<"b">>}, MaxProducts + 1)

C18_RemoveProductFirstMatch ==
    /\ \A p \in ProductArgs : C18_Removed(ws, p)
    /\ \A ps \in C18_ProductLists, p \in ProductArgs :
           C18_Removed([ws EXCEPT !.Products = ps], p)

\* RemoveProduct has acted on a workspace with tools and left product b
C18_Witness ==
    /\ lastOp = "RemoveProduct"
    /\ ws.Products = <<<<"b">>>>
    /\ ws.Tools /= <<>>

-----------------------------------------------------------------------------
(* Specification of the runtimetool Manager over a workspace: any sequence *)
(* of Manager.AddTool, Manager.RemoveTool and Manager.GetTool.             *)

\* names looked up: the names tools are added under
LookupNames == ToolNames

\* entries handed to Manager.AddTool
ManagerToolArgs == {t \in ToolArgs : t.Path = <<"p">>}

\* the entry of ws added last under name n, by the parser for a loaded
\* workspace
LoadedEntry(w, n) == GetTool(w, n).entry

InitLookup ==
    /\ ws \in StartWorkspaces
    /\ added = [n \in ToolNames |-> LoadedEntry(ws, n)]
    /\ lookup = ToolResult(Empty, NilRuntimeTool, "")
    /\ lastOp = "NewManager"
    /\ IdleParse /\ IdleHelp /\ IdleRt /\ IdleRace /\ IdleMgr /\ IdleCli /\ IdleExt

\* m.AddTool(entry)
DoManagerAddTool ==
    \E t \in ManagerToolArgs :
        /\ Len(ws.Tools) < MaxTools \/ HasTool(ws, t.Name)
        /\ ws' = AddTool(ws, t)
        /\ added' = [added EXCEPT ![t.Name] = t]
        /\ lastOp' = "Manager.AddTool"
        /\ UNCHANGED <<lookup, parseVars, helpVars, rtVars, raceVars, mgrVars, cliVars, extVars>>

\* m.RemoveTool(toolName)
DoManagerRemoveTool ==
    \E n \in ToolNames :
        /\ ws' = RemoveTool(ws, n)
        /\ lastOp' = "Manager.RemoveTool"
        /\ UNCHANGED <<added, lookup, parseVars, helpVars, rtVars, raceVars, mgrVars, cliVars, extVars>>

\* m.GetTool(name)
DoManagerGetTool ==
    \E n \in LookupNames :
        /\ lookup' = ManagerGetTool(ws, n)
        /\ lastOp' = "Manager.GetTool"
        /\ UNCHANGED <<ws, added, parseVars, helpVars, rtVars, raceVars, mgrVars, cliVars, extVars>>

NextLookup == DoManagerAddTool \/ DoManagerRemoveTool \/ DoManagerGetTool

SpecLookup == InitLookup /\ [][NextLookup]_vars

-----------------------------------------------------------------------------
(* C19: tool lookup always reflects the current descriptor.  After any     *)
(* sequence of Manager.AddTool and Manager.RemoveTool calls,               *)
(* Manager.GetTool(n) returns a not-found error if and only if no entry    *)
(* named n is in the workspace, and otherwise a tool whose name, mode,     *)
(* path and version are those of the entry added last for n.               *)

C19_Present(n) == \E i \in 1..Len(ws.Tools) : ws.Tools[i].Name = n

C19_LookupReflectsWorkspace ==
    lastOp = "Manager.GetTool" =>
        /\ (lookup.err = "tool not found in workspace") <=> ~C19_Present(lookup.name)
        /\ (lookup.err = "") <=> C19_Present(lookup.name)
        /\ C19_Present(lookup.name) =>
               /\ lookup.tool.entry = added[lookup.name]
               /\ lookup.tool.entry.Name = lookup.name
               /\ lookup.tool.workspace = ws

\* GetTool found a tool in second position whose entry had been replaced
\* or added after the workspace was loaded
C19_Witness ==
    /\ lastOp = "Manager.GetTool"
    /\ lookup.err = ""
    /\ Len(ws.Tools) = 2
    /\ ws.Tools[2].Name = lookup.name
    /\ lookup.tool.entry \in ToolArgs

-----------------------------------------------------------------------------
(* Specification of Workspace.Validate: a workspace with an organization   *)
(* and products, loaded from a descriptor or built as a literal, checked   *)
(* against a file system.                                                  *)

\* organization and product paths: relative, absolute, relative and nested
WorkspacePathArgs == {<<"t">>, <<"/", "t">>, <<"t", "/", "x">>}

ValidatedWorkspaces ==
    {[Version |-> v, Organization |-> o, Products |-> ps, Tools |-> <<>>, FilePath |-> f] :
        v \in {DefaultVersion, Empty},
        o \in {Empty} \cup WorkspacePathArgs,
        ps \in SeqsUpTo(WorkspacePathArgs, MaxProducts),
        f \in {Empty, WorkspaceFile}}

InitValidate ==
    /\ ws \in ValidatedWorkspaces
    /\ fs \in FileSystems
    /\ cwd = Slash
    /\ onPath = FALSE
    /\ outcome = NoOutcome
    /\ lastOp = "input"
    /\ IdleParse /\ IdleHelp /\ IdleRace /\ IdleMgr /\ IdleCli /\ IdleLookup /\ IdleExt

\* ws.Validate()
DoWorkspaceValidate ==
    /\ lastOp = "input"
    /\ LET r == WorkspaceValidate(ws, fs, cwd)
       IN  outcome' = Outcome("Workspace.Validate", r.path, r.err, FALSE, 0)
    /\ lastOp' = "Workspace.Validate"
    /\ UNCHANGED <<ws, parseVars, helpVars, fs, cwd, onPath, raceVars, mgrVars, cliVars,
                   lookupVars, extVars>>

\* ws.GetAbsolutePaths()
DoGetAbsolutePaths ==
    /\ lastOp = "input"
    /\ absPaths' = [result |-> GetAbsolutePaths(ws), receiver |-> ws]
    /\ lastOp' = "GetAbsolutePaths"
    /\ UNCHANGED <<ws, parseVars, helpVars, rtVars, raceVars, mgrVars, cliVars, lookupVars,
                   normVars, discVars, regVars, btVars, retryVars>>

NextValidate == DoWorkspaceValidate \/ DoGetAbsolutePaths

SpecValidate == InitValidate /\ [][NextValidate]_vars

-----------------------------------------------------------------------------
(* C20: Workspace.Validate fails if and only if the version is empty or    *)
(* some organization / product path it can resolve (an absolute path, or a *)
(* relative path when sourcePath is set) does not exist; a relative path   *)
(* is skipped when sourcePath is empty; the error names the first missing  *)
(* path in the order organization, then products in list order.            *)

\* the paths Validate can resolve, resolved, in the order it checks them
C20_Resolved(p) == IF IsAbs(p) THEN p ELSE Join(Dir(ws.FilePath), p)

C20_Checked ==
    LET all == (IF ws.Organization = Empty THEN <<>> ELSE <<ws.Organization>>)
                   \o ws.Products
        keep(i) == IsAbs(all[i]) \/ ws.FilePath /= Empty
        RECURSIVE pick(_)
        pick(i) == IF i > Len(all) THEN <<>>
                   ELSE (IF keep(i) THEN <<C20_Resolved(all[i])>> ELSE <<>>) \o pick(i + 1)
    IN  pick(1)

\* nothing is at path p of the file system
C20_DoesNotExist(p) == C11_Entry(p) = KindNone

C20_FailsIffPathMissing ==
    outcome.op = "Workspace.Validate" =>
        LET checked == C20_Checked
            missing == {i \in 1..Len(checked) : C20_DoesNotExist(checked[i])}
        IN  /\ (outcome.err /= "") <=> (ws.Version = Empty \/ missing /= {})
            /\ (ws.Version /= Empty /\ missing /= {}) =>
                   \E i \in missing :
                       /\ \A j \in missing : i <= j
                       /\ outcome.path = checked[i]

-----------------------------------------------------------------------------
(* C21: GetAbsolutePaths fails if and only if sourcePath is unset;         *)
(* otherwise it returns the organization path and exactly one path per     *)
(* product, in product order, each relative path joined to the directory   *)
(* of sourcePath and each absolute path unchanged; the workspace itself is *)
(* not modified.  An empty organization is no organization: it is returned *)
(* empty.                                                                  *)

\* path p as GetAbsolutePaths has to return it
C21_Absolute(p) ==
    IF p /= Empty /\ p[1] = "/" THEN p
    ELSE Clean(Dir(ws.FilePath) \o Slash \o p)

C21_AbsolutePaths ==
    lastOp = "GetAbsolutePaths" =>
        LET r == absPaths.result
        IN  /\ (r.err /= "") <=> (ws.FilePath = Empty)
            /\ r.err = "" =>
                   /\ r.org = IF ws.Organization = Empty THEN Empty
                              ELSE C21_Absolute(ws.Organization)
                   /\ Len(r.products) = Len(ws.Products)
                   /\ \A i \in 1..Len(ws.Products) :
                          r.products[i] = C21_Absolute(ws.Products[i])
            /\ ws = absPaths.receiver

\* GetAbsolutePaths returned a relative product joined and an absolute
\* product unchanged
C21_Witness ==
    /\ lastOp = "GetAbsolutePaths"
    /\ absPaths.result.err = ""
    /\ ws.Organization /= Empty
    /\ \E i, j \in 1..Len(ws.Products) :
           /\ ws.Products[i] = <<"t">>
           /\ absPaths.result.products[i] = <<"/", "w", "/", "t">>
           /\ ws.Products[j] = <<"/", "t">>
           /\ absPaths.result.products[j] = <<"/", "t">>

-----------------------------------------------------------------------------
(* Specification of Workspace.String: a workspace with or without an       *)
(* organization, products and tools, serialized.                           *)

SerializedWorkspaces ==
    {[Version |-> DefaultVersion, Organization |-> o, Products |-> ps, Tools |-> ts,
      FilePath |-> Empty] :
        o \in {Empty, <<"o">>},
        ps \in SeqsUpTo({<<"a">>, <<"b">>}, MaxProducts),
        ts \in SeqsUpTo(ManagerToolArgs, MaxTools)}

InitString ==
    /\ ws \in SerializedWorkspaces
    /\ content = Empty
    /\ parsed = NotParsed
    /\ lastOp = "input"
    /\ IdleHelp /\ IdleRt /\ IdleRace /\ IdleMgr /\ IdleCli /\ IdleLookup /\ IdleExt

\* content := ws.String()
DoString ==
    /\ lastOp = "input"
    /\ content' = String(ws)
    /\ lastOp' = "String"
    /\ UNCHANGED <<ws, parsed, helpVars, rtVars, raceVars, mgrVars, cliVars, lookupVars,
                   extVars>>

NextString == DoString

SpecString == InitString /\ [][NextString]_vars

-----------------------------------------------------------------------------
(* C22: Workspace.String() emits the version line first; if organization   *)
(* or products are non-empty a blank line follows it, before the section;  *)
(* products and tools are rendered inside "products (" / "tools (" blocks, *)
(* one entry per line behind exactly 4 spaces, closed by an unindented     *)
(* ")".  (That the text depends on the fields only is how String is        *)
(* defined: an operator of the workspace.)                                 *)

\* the four fields of a tool entry, separated by single spaces
C22_ToolLine(t) == t.Name \o <<" ">> \o t.Mode \o <<" ">> \o t.Path \o <<" ">> \o t.Version

\* lines k .. k + Len(entries) + 1 of out are the block keyword with its
\* entries
C22_BlockAt(out, k, keyword, entries) ==
    /\ k + Len(entries) + 1 <= Len(out)
    /\ out[k] = keyword \o <<" ", "(">>
    /\ \A i \in 1..Len(entries) : out[k + i] = <<" ", " ", " ", " ">> \o entries[i]
    /\ out[k + Len(entries) + 1] = <<")">>

C22_SerializationLayout ==
    lastOp = "String" =>
        LET out == SplitLines(content)
            hasOrg == ws.Organization /= Empty
            hasProducts == ws.Products /= <<>>
            hasTools == ws.Tools /= <<>>
            toolLines == [i \in 1..Len(ws.Tools) |-> C22_ToolLine(ws.Tools[i])]
            \* where the sections start
            orgAt == 3
            productsAt == IF hasOrg THEN 5 ELSE 3
            productsEnd == productsAt + Len(ws.Products) + 1
            toolsAt == IF hasProducts THEN productsEnd + 2
                       ELSE IF hasOrg THEN 4 ELSE 2
        IN  /\ out[1] = kwNimsforest \o <<" ">> \o ws.Version
            /\ (hasOrg \/ hasProducts) => (Len(out) >= 3 /\ out[2] = Empty)
            /\ hasOrg => out[orgAt] = kwOrganization \o <<" ">> \o ws.Organization
            /\ hasProducts => C22_BlockAt(out, productsAt, kwProducts, ws.Products)
            /\ hasTools => C22_BlockAt(out, toolsAt, kwTools, toolLines)
            /\ Len(out) = IF hasTools THEN toolsAt + Len(ws.Tools) + 1
                          ELSE IF hasProducts THEN productsEnd
                          ELSE IF hasOrg THEN orgAt ELSE 1

\* a workspace with an organization, two products and two tools was
\* serialized
C22_Witness ==
    /\ lastOp = "String"
    /\ ws.Organization /= Empty
    /\ Len(ws.Products) = 2
    /\ Len(ws.Tools) = 2
    /\ Len(SplitLines(content)) = 13

-----------------------------------------------------------------------------
(* Specification of NormalizeWorkspaceContent: a bounded text is parsed    *)
(* and normalized; the normalized text is then parsed, or normalized       *)
(* again.                                                                  *)

\* lines the texts handed to NormalizeWorkspaceContent are made of: the
\* version line, block openers in loose and in canonical form, the closing
\* line, an entry line that reads as a product and as a tool, the entry of
\* a tool named "tools", and an indented comment
NormalizeVocabulary ==
    { kwNimsforest \o <<SP>> \o DefaultVersion,
      <<SP>> \o kwProducts \o <<SP, SP>> \o OpenParen,
      kwTools \o <<SP>> \o OpenParen,
      CloseParen,
      <<SP, SP, "x", SP>> \o kwBinary \o <<SP, "p", SP, "1">>,
      kwTools \o <<SP>> \o kwBinary \o <<SP, "p", SP, "1">>,
      <<SP, "#", SP, "c">> }

NormalizeInputs == {JoinLines(ls) : ls \in SeqsUpTo(NormalizeVocabulary, MaxLines)}

\* what is known of a normalized text: the text, what normalizing it again
\* gave and what parsing it gave (Unused until done)
Normalized(text, again, reparsed) == [text |-> text, again |-> again, reparsed |-> reparsed]

InitNormalize ==
    /\ content \in NormalizeInputs
    /\ parsed = NotParsed
    /\ lastOp = "input"
    /\ IdleWs /\ IdleHelp /\ IdleRt /\ IdleRace /\ IdleMgr /\ IdleCli /\ IdleLookup /\ IdleExt

\* normalized := NormalizeWorkspaceContent(content)
DoNormalize ==
    /\ lastOp = "ParseWorkspace"
    /\ normalized' = Normalized(NormalizeWorkspaceContent(content), Unused, Unused)
    /\ lastOp' = "Normalize"
    /\ UNCHANGED <<ws, parseVars, helpVars, rtVars, raceVars, mgrVars, cliVars, lookupVars,
                   absVars, discVars, regVars, btVars, retryVars>>

\* NormalizeWorkspaceContent(normalized)
DoNormalizeAgain ==
    /\ lastOp = "Normalize"
    /\ normalized' = [normalized EXCEPT !.again = NormalizeWorkspaceContent(normalized.text)]
    /\ lastOp' = "NormalizeAgain"
    /\ UNCHANGED <<ws, parseVars, helpVars, rtVars, raceVars, mgrVars, cliVars, lookupVars,
                   absVars, discVars, regVars, btVars, retryVars>>

\* ParseWorkspace(normalized)
DoParseNormalized ==
    /\ lastOp = "Normalize"
    /\ normalized' = [normalized EXCEPT !.reparsed = ParseWorkspace(normalized.text)]
    /\ lastOp' = "ParseNormalized"
    /\ UNCHANGED <<ws, parseVars, helpVars, rtVars, raceVars, mgrVars, cliVars, lookupVars,
                   absVars, discVars, regVars, btVars, retryVars>>

NextNormalize == DoParseWorkspace \/ DoNormalize \/ DoNormalizeAgain \/ DoParseNormalized

SpecNormalize == InitNormalize /\ [][NextNormalize]_vars

-----------------------------------------------------------------------------
(* C23: NormalizeWorkspaceContent outputs every product or tool line that  *)
(* lies inside a block with exactly 4 spaces of indentation, every         *)
(* block-opening line as "products (" or "tools (", and every comment line *)
(* exactly as it was in the input.                                         *)

\* What each line of a descriptor text is, as the grammar of the
\* descriptor has it: outside a block a line that starts with "products "
\* or "tools " opens one; inside a block ")" closes it and every other
\* line is an entry; blank and comment lines are the same everywhere.
RECURSIVE C23_Classes(_, _, _)
C23_Classes(lines, i, block) ==
    IF i > Len(lines) THEN <<>>
    ELSE LET line == TrimSpace(lines[i])
         IN  IF line = Empty THEN <<"blank">> \o C23_Classes(lines, i + 1, block)
             ELSE IF line[1] = "#" THEN <<"comment">> \o C23_Classes(lines, i + 1, block)
             ELSE IF block /= ""
             THEN IF line = <<")">>
                  THEN <<"close">> \o C23_Classes(lines, i + 1, "")
                  ELSE <<"entry">> \o C23_Classes(lines, i + 1, block)
             ELSE IF HasPrefix(line, kwProducts \o <<" ">>)
             THEN <<"products">> \o C23_Classes(lines, i + 1, "products")
             ELSE IF HasPrefix(line, kwTools \o <<" ">>)
             THEN <<"tools">> \o C23_Classes(lines, i + 1, "tools")
             ELSE <<"other">> \o C23_Classes(lines, i + 1, block)

C23_NormalizedLines ==
    lastOp = "Normalize" =>
        LET in == SplitLines(content)
            out == SplitLines(normalized.text)
            class == C23_Classes(in, 1, "")
        IN  /\ Len(out) = Len(in)
            /\ \A i \in 1..Len(in) :
                   /\ class[i] = "entry" =>
                          out[i] = <<" ", " ", " ", " ">> \o TrimSpace(in[i])
                   /\ class[i] = "products" => out[i] = kwProducts \o <<" ", "(">>
                   /\ class[i] = "tools" => out[i] = kwTools \o <<" ", "(">>
                   /\ class[i] = "comment" => out[i] = in[i]

-----------------------------------------------------------------------------
(* C26: for every text x that ParseWorkspace accepts,                      *)
(* ParseWorkspace(NormalizeWorkspaceContent(x)) succeeds too and yields    *)
(* the same version, organization, products and tools.                     *)

C26_NormalizationPreservesMeaning ==
    (lastOp = "ParseNormalized" /\ parsed.ok) =>
        /\ normalized.reparsed.ok
        /\ normalized.reparsed.ws.Version = parsed.ws.Version
        /\ normalized.reparsed.ws.Organization = parsed.ws.Organization
        /\ normalized.reparsed.ws.Products = parsed.ws.Products
        /\ normalized.reparsed.ws.Tools = parsed.ws.Tools

-----------------------------------------------------------------------------
(* C30: NormalizeWorkspaceContent is idempotent: normalizing a normalized  *)
(* text gives the same text.                                               *)

C30_Idempotent ==
    lastOp = "NormalizeAgain" => normalized.again = normalized.text

\* a text with an opener in loose form and an indented entry in its block,
\* both rewritten by the first pass, was normalized twice
C30_Witness ==
    /\ lastOp = "NormalizeAgain"
    /\ normalized.text /= content
    /\ \E i \in 1..(Len(SplitLines(content)) - 1) :
           /\ SplitLines(content)[i] = <<" ">> \o kwProducts \o <<" ", " ", "(">>
           /\ SplitLines(content)[i + 1] = <<" ", " ", "x", " ">> \o kwBinary \o <<" ", "p", " ", "1">>
           /\ SplitLines(normalized.again)[i + 1] = <<" ", " ", " ", " ", "x", " ">> \o kwBinary \o <<" ", "p", " ", "1">>

-----------------------------------------------------------------------------
(* Specification of RuntimeTool.GetCommands: one tool entry, an executable *)
(* that exists or not, and child processes that fail or write a help       *)
(* text.                                                                   *)

\* what a started child may do: fail, write nothing, write a usage text or
\* write a commands section
RunResults ==
    { RunResult(TRUE, Empty),
      RunResult(FALSE, Empty),
      RunResult(FALSE, <<"U", "s", "a", "g", "e">>),
      RunResult(FALSE, JoinLines(<< <<"C">> \o SubSeq(kwCommand, 2, 7) \o <<"s", ":">>,
                                    <<SP, SP, "i", "n", "i", "t", SP, SP, "I", "n", "i", "t">> >>)) }

Attempts == 1..(Len(helpFlags) + 1)

InitDiscover ==
    /\ \E m \in {kwBinary, <<"z">>} :
          ws = [AddTool(NewWorkspace, ToolEntry(ToolName, m, <<"/", "t">>, <<"1">>))
                    EXCEPT !.FilePath = WorkspaceFile]
    /\ fs \in {files \in FileSystems : \A f \in FsPaths \ {<<"/", "t">>} : files[f] = KindNone}
    /\ cwd = Slash
    /\ onPath = FALSE
    /\ outcome = NoOutcome
    /\ lastOp = "input"
    /\ IdleParse /\ IdleHelp /\ IdleRace /\ IdleMgr /\ IdleCli /\ IdleLookup /\ IdleExt

\* rt.GetCommands(ctx)
DoGetCommands ==
    \E runs \in [Attempts -> RunResults] :
        /\ lastOp = "input"
        /\ LET r == GetCommands(ws.Tools[1], ws, fs, cwd, onPath, runs)
           IN  /\ spawns' = r.spawns
               /\ commands' = r.commands
               /\ outcome' = Outcome("GetCommands", Empty, r.err, r.spawns /= <<>>, 0)
        /\ lastOp' = "GetCommands"
        /\ UNCHANGED <<ws, parseVars, helpOut, fs, cwd, onPath, raceVars, mgrVars, cliVars,
                       lookupVars, absVars, normVars, regVars, btVars, retryVars>>

NextDiscover == DoGetCommands

SpecDiscover == InitDiscover /\ [][NextDiscover]_vars

-----------------------------------------------------------------------------
(* C24: GetCommands runs the executable with the single argument --help,   *)
(* then -h, then help, in that order, parses the combined output of each   *)
(* run and returns the first non-empty command list without a later run;   *)
(* if no flag yields a list it runs the executable with no arguments and   *)
(* parses that; if nothing is discovered it returns an empty list and no   *)
(* error.                                                                  *)

C24_Order == << <<"--help">>, <<"-h">>, <<"help">>, <<>> >>

\* the argument list of a child process, each argument as one string
C24_Args(args) ==
    [k \in 1..Len(args) |->
        IF args[k] = <<"-", "-", "h", "e", "l", "p">> THEN "--help"
        ELSE IF args[k] = <<"-", "h">> THEN "-h"
        ELSE IF args[k] = <<"h", "e", "l", "p">> THEN "help"
        ELSE "?"]

\* what run i of the executable yielded: the commands in its output, none
\* when it failed
C24_Yield(i) ==
    IF spawns[i].failed THEN <<>> ELSE parseCommandsFromHelp(spawns[i].output)

-----------------------------------------------------------------------------
(* Specification of BaseTool: a tool made by NewBaseTool and any sequence  *)
(* of Install, Update and Uninstall on it.                                 *)

\* bt: the tool, the call made last, the tool as it was before that call,
\* whether the call was forced and the error it returned
BaseToolState(t, op, before, force, err) ==
    [tool |-> t, op |-> op, before |-> before, force |-> force, err |-> err]

InstallModeArgs == {kwBinary, kwClone, <<"z">>}
InstallPathArgs == {Empty, <<"p">>}

InitBaseTool ==
    /\ bt = BaseToolState(NewBaseTool, "NewBaseTool", NewBaseTool, FALSE, "")
    /\ lastOp = "NewBaseTool"
    /\ IdleWs /\ IdleParse /\ IdleHelp /\ IdleRt /\ IdleRace /\ IdleMgr /\ IdleCli /\ IdleLookup
    /\ absPaths = Unused /\ normalized = Unused /\ spawns = Unused
    /\ rmu = Unused /\ rtools = Unused /\ calls = Unused /\ retry = Unused

\* t.Install(ctx, options)
DoInstall ==
    \E mode \in InstallModeArgs, path \in InstallPathArgs, force \in BOOLEAN, mkdirOk \in BOOLEAN :
        /\ LET r == Install(bt.tool, InstallOptions(mode, path, force), mkdirOk)
           IN  bt' = BaseToolState(r.tool, "Install", bt.tool, force, r.err)
        /\ lastOp' = "Install"
        /\ UNCHANGED <<ws, parseVars, helpVars, rtVars, raceVars, mgrVars, cliVars, lookupVars,
                       absVars, normVars, discVars, regVars, retryVars>>

\* t.Update(ctx, options)
DoUpdate ==
    /\ LET r == Update(bt.tool)
       IN  bt' = BaseToolState(r.tool, "Update", bt.tool, FALSE, r.err)
    /\ lastOp' = "Update"
    /\ UNCHANGED <<ws, parseVars, helpVars, rtVars, raceVars, mgrVars, cliVars, lookupVars,
                   absVars, normVars, discVars, regVars, retryVars>>

\* t.Uninstall(ctx, options)
DoUninstall ==
    \E removeOk \in BOOLEAN :
        /\ LET r == Uninstall(bt.tool, removeOk)
           IN  bt' = BaseToolState(r.tool, "Uninstall", bt.tool, FALSE, r.err)
        /\ lastOp' = "Uninstall"
        /\ UNCHANGED <<ws, parseVars, helpVars, rtVars, raceVars, mgrVars, cliVars, lookupVars,
                       absVars, normVars, discVars, regVars, retryVars>>

NextBaseTool == DoInstall \/ DoUpdate \/ DoUninstall

SpecBaseTool == InitBaseTool /\ [][NextBaseTool]_vars

-----------------------------------------------------------------------------
(* C28: the status of a BaseTool follows this state machine and no other:  *)
(* Install on an Installed tool without Force fails and leaves the status; *)
(* any other Install ends in Installed on success and in Error on failure; *)
(* Update and Uninstall fail with the status unchanged unless the status   *)
(* is Installed; a successful Update ends in Installed, a successful       *)
(* Uninstall in NotInstalled with an empty install path; no call returns   *)
(* with the status left at Installing or Updating.                         *)

-----------------------------------------------------------------------------
(* Specification of ExecuteWithRetry: the loop, attempt by attempt, with a *)
(* context that is cancelled before the call, at any moment during it, or  *)
(* never.                                                                  *)

\* what tool.Execute returns: nil or one of two errors
ExecuteErrors == {"", "e1", "e2"}

InitRetry ==
    /\ \E m \in 0..MaxRetries, c \in BOOLEAN :
          retry = Retry("attempt", m, 0, "", "", <<>>, c, IF c THEN "before" ELSE "", 0)
    /\ lastOp = "ExecuteWithRetry"
    /\ IdleWs /\ IdleParse /\ IdleHelp /\ IdleRt /\ IdleRace /\ IdleMgr /\ IdleCli /\ IdleLookup
    /\ absPaths = Unused /\ normalized = Unused /\ spawns = Unused
    /\ rmu = Unused /\ rtools = Unused /\ calls = Unused /\ bt = Unused

\* tool.Execute(ctx, commandName, args), then i++ and the loop condition
RetryAttempt ==
    \E err \in ExecuteErrors :
        /\ retry.pc = "attempt"
        /\ retry' =
              LET made == [retry EXCEPT !.executed = Append(@, err)]
              IN  IF err = "" THEN [made EXCEPT !.pc = "returned", !.result = ""]
                  ELSE IF retry.i + 1 <= retry.maxRetries
                  THEN [made EXCEPT !.pc = "wait", !.lastErr = err, !.i = @ + 1]
                  ELSE [made EXCEPT !.pc = "returned", !.lastErr = err, !.i = @ + 1,
                                    !.result = err]
        /\ lastOp' = "Execute"
        /\ UNCHANGED <<ws, parseVars, helpVars, rtVars, raceVars, mgrVars, cliVars, lookupVars,
                       absVars, normVars, discVars, regVars, btVars>>

\* the select before a retry
RetryWait ==
    /\ retry.pc = "wait"
    /\ retry' = IF Select(retry.cancelled) = "done"
                THEN [retry EXCEPT !.pc = "returned", !.result = "ctx.Err()"]
                ELSE [retry EXCEPT !.pc = "attempt"]
    /\ lastOp' = "select"
    /\ UNCHANGED <<ws, parseVars, helpVars, rtVars, raceVars, mgrVars, cliVars, lookupVars,
                   absVars, normVars, discVars, regVars, btVars>>

\* the context is cancelled, by its owner or by its deadline
RetryCancel ==
    /\ retry.pc /= "returned"
    /\ ~retry.cancelled
    /\ retry' = [retry EXCEPT !.cancelled = TRUE, !.cancelledIn = retry.pc,
                              !.cancelledAfter = Len(retry.executed)]
    /\ lastOp' = "cancel"
    /\ UNCHANGED <<ws, parseVars, helpVars, rtVars, raceVars, mgrVars, cliVars, lookupVars,
                   absVars, normVars, discVars, regVars, btVars>>

NextRetry == RetryAttempt \/ RetryWait \/ RetryCancel

SpecRetry == InitRetry /\ [][NextRetry]_vars

-----------------------------------------------------------------------------
(* C29: ExecuteWithRetry with maxRetries >= 0 calls tool.Execute at least  *)
(* once and at most maxRetries+1 times, makes no attempt after the first   *)
(* one that succeeds (returning nil), makes no attempt once the context is *)
(* cancelled during a wait (returning the context's error), and otherwise  *)
(* returns the error of the last attempt.                                  *)

C29_BoundedRetry ==
    LET n == Len(retry.executed)
    IN  /\ n <= retry.maxRetries + 1
        /\ \A k \in 1..(n - 1) : retry.executed[k] /= ""
        /\ (retry.cancelled /\ retry.cancelledIn = "wait") => n = retry.cancelledAfter
        /\ retry.pc = "returned" =>
               /\ n >= 1
               /\ IF retry.executed[n] = "" THEN retry.result = ""
                  ELSE IF retry.cancelled /\ retry.cancelledIn = "wait"
                  THEN retry.result = "ctx.Err()"
                  ELSE IF retry.result /= "ctx.Err()"
                  THEN n = retry.maxRetries + 1 /\ retry.result = retry.executed[n]
                  ELSE retry.cancelled

\* every attempt was made and failed, with different errors, and the last
\* error was returned
C29_Witness ==
    /\ retry.pc = "returned"
    /\ retry.maxRetries = 2
    /\ retry.executed = <<"e1", "e1", "e2">>
    /\ retry.result = "e2"

\* the context was cancelled during the first wait and the call returned
\* its error after one attempt
C29_WitnessCancelled ==
    /\ retry.pc = "returned"
    /\ retry.cancelledIn = "wait"
    /\ Len(retry.executed) = 1
    /\ retry.result = "ctx.Err()"

-----------------------------------------------------------------------------
(* Specification of the DefaultRegistry under concurrent callers: two      *)
(* goroutines each make one call of Register, Unregister, Get or Exists on *)
(* the registry, a third calls DefaultManager.InstallTool on a manager     *)
(* over the same registry; the steps of the three interleave freely.       *)

ManagerCaller == "m"
RegistryCallers == {"g1", "g2"}
Callers == {ManagerCaller} \cup RegistryCallers

ToolA == RegTool("A", ToolName, TRUE)
ToolB == RegTool("B", ToolName, TRUE)
ToolInvalid == RegTool("C", ToolName, FALSE)
ToolUnnamed == RegTool("D", Empty, TRUE)

\* ToolB was installed before, the others were not
InitialStatus ==
    [id \in {"A", "B", "C", "D"} |-> IF id = "B" THEN StInstalled ELSE StNotInstalled]

RegistryCalls ==
    {Call("Register", t, t.name, FALSE, "start", NilTool, "", FALSE) :
        t \in {ToolA, ToolB, ToolInvalid, ToolUnnamed}}
    \cup {Call(op, NilTool, ToolName, FALSE, "start", NilTool, "", FALSE) :
              op \in {"Unregister", "Get", "Exists"}}

ManagerCalls ==
    {Call("InstallTool", NilTool, ToolName, f, "start", NilTool, "", FALSE) : f \in BOOLEAN}

\* the registry before the calls: empty, or holding one of the tools
InitialRegistries == {[n \in {ToolName} |-> t] : t \in {NilTool, ToolA, ToolB}}

InitRegistry ==
    /\ rmu = RWMutex(0, NoThread, FALSE)
    /\ \E tools \in InitialRegistries :
          /\ rtools = [tools |-> tools, status |-> InitialStatus]
          /\ \E c \in [RegistryCallers -> RegistryCalls], i \in ManagerCalls :
                 calls = [of |-> [g \in Callers |-> IF g = ManagerCaller THEN i ELSE c[g]],
                          order |-> <<>>,
                          start |-> tools]
    /\ lastOp = "input"
    /\ IdleWs /\ IdleParse /\ IdleHelp /\ IdleRt /\ IdleRace /\ IdleMgr /\ IdleCli /\ IdleLookup
    /\ absPaths = Unused /\ normalized = Unused /\ spawns = Unused
    /\ bt = Unused /\ retry = Unused

notRegistry ==
    <<ws, parseVars, helpVars, rtVars, raceVars, reg, thr, updated, cliVars, lookupVars,
      absVars, normVars, discVars, btVars, retryVars>>

\* the calls after g's call returned err and value, having taken effect
Returned(g, err, value) ==
    LET c == calls.of[g]
    IN  [calls EXCEPT !.of[g].pc = "done", !.of[g].err = err, !.of[g].value = value,
                      !.order = Append(@, RegistryEvent(c.op, c.tool, c.name, err, value))]

\* r.mu.Lock() in Register and Unregister
RegistryLock(g) ==
    /\ calls.of[g].op \in {"Register", "Unregister"}
    /\ calls.of[g].pc = "start"
    /\ CanLock(rmu)
    /\ rmu' = Lock(rmu, g)
    /\ calls' = [calls EXCEPT !.of[g].pc = "check"]
    /\ lastOp' = "Lock"
    /\ UNCHANGED <<rtools, mu, notRegistry>>

\* the checks of Register and Unregister; a failed check returns, which
\* runs the deferred r.mu.Unlock()
RegistryCheck(g) ==
    /\ calls.of[g].pc = "check"
    /\ LET c == calls.of[g]
           err == IF c.op = "Register" THEN RegisterCheck(rtools.tools, c.tool)
                  ELSE UnregisterCheck(rtools.tools, c.name)
       IN  IF err = ""
           THEN /\ calls' = [calls EXCEPT !.of[g].pc = "write"]
                /\ UNCHANGED rmu
           ELSE /\ calls' = Returned(g, err, FALSE)
                /\ rmu' = Unlock(rmu)
    /\ lastOp' = "check"
    /\ UNCHANGED <<rtools, mu, notRegistry>>

\* r.tools[name] = tool in Register, delete(r.tools, toolName) in
\* Unregister, and the return
RegistryWrite(g) ==
    /\ calls.of[g].pc = "write"
    /\ LET c == calls.of[g]
       IN  rtools' = [rtools EXCEPT !.tools[c.name] =
                         IF c.op = "Register" THEN c.tool ELSE NilTool]
    /\ calls' = Returned(g, "", FALSE)
    /\ rmu' = Unlock(rmu)
    /\ lastOp' = "write"
    /\ UNCHANGED <<mu, notRegistry>>

\* r.mu.RLock() in Get and Exists
RegistryRLock(g) ==
    /\ calls.of[g].op \in {"Get", "Exists"}
    /\ calls.of[g].pc = "start"
    /\ CanRLock(rmu)
    /\ rmu' = RLock(rmu)
    /\ calls' = [calls EXCEPT !.of[g].pc = "read"]
    /\ lastOp' = "RLock"
    /\ UNCHANGED <<rtools, mu, notRegistry>>

\* the map lookup of Get and Exists and the return
RegistryRead(g) ==
    /\ calls.of[g].pc = "read"
    /\ LET c == calls.of[g]
       IN  calls' = IF c.op = "Get"
                    THEN Returned(g, GetError(rtools.tools, c.name), rtools.tools[c.name])
                    ELSE Returned(g, "", rtools.tools[c.name] /= NilTool)
    /\ rmu' = RUnlock(rmu)
    /\ lastOp' = "read"
    /\ UNCHANGED <<rtools, mu, notRegistry>>

\* m.mu.Lock() in InstallTool
InstallLock(g) ==
    /\ calls.of[g].op = "InstallTool"
    /\ calls.of[g].pc = "start"
    /\ CanLock(mu)
    /\ mu' = Lock(mu, g)
    /\ calls' = [calls EXCEPT !.of[g].pc = "Exists"]
    /\ lastOp' = "InstallTool"
    /\ UNCHANGED <<rmu, rtools, notRegistry>>

\* r.mu.RLock() of the registry call InstallTool is about to make:
\* Exists, the first Get or the second Get
InstallRLock(g) ==
    /\ calls.of[g].pc \in {"Exists", "Get", "GetAgain"}
    /\ CanRLock(rmu)
    /\ rmu' = RLock(rmu)
    /\ calls' = [calls EXCEPT !.of[g].pc =
                     CASE @ = "Exists" -> "Exists read"
                       [] @ = "Get" -> "Get read"
                       [] @ = "GetAgain" -> "GetAgain read"]
    /\ lastOp' = "RLock"
    /\ UNCHANGED <<rtools, mu, notRegistry>>

\* the map lookup of that registry call and its return into InstallTool:
\* after Exists the first Get follows when the name exists, else the second
\* Get; the first Get leaves the tool in existingTool, its error dropped;
\* a failed second Get ends InstallTool with its error
InstallRead(g) ==
    /\ calls.of[g].pc \in {"Exists read", "Get read", "GetAgain read"}
    /\ LET c == calls.of[g]
           found == rtools.tools[c.name]
           err == GetError(rtools.tools, c.name)
       IN  CASE c.pc = "Exists read" ->
                  /\ calls' = [calls EXCEPT
                        !.of[g].pc = IF found /= NilTool THEN "Get" ELSE "GetAgain",
                        !.order = Append(@, RegistryEvent("Exists", NilTool, c.name, "",
                                                          found /= NilTool))]
                  /\ UNCHANGED mu
              [] c.pc = "Get read" ->
                  /\ calls' = [calls EXCEPT
                        !.of[g].pc = "Status",
                        !.of[g].got = found,
                        !.order = Append(@, RegistryEvent("Get", NilTool, c.name, err, found))]
                  /\ UNCHANGED mu
              [] c.pc = "GetAgain read" ->
                  /\ calls' = [calls EXCEPT
                        !.of[g].pc = IF err /= "" THEN "done" ELSE "Install",
                        !.of[g].got = found,
                        !.of[g].err = err,
                        !.order = Append(@, RegistryEvent("Get", NilTool, c.name, err, found))]
                  /\ mu' = IF err /= "" THEN Unlock(mu) ELSE mu
    /\ rmu' = RUnlock(rmu)
    /\ lastOp' = "read"
    /\ UNCHANGED <<rtools, notRegistry>>

\* existingTool.Status() == ToolStatusInstalled && !options.Force: a nil
\* existingTool makes the call panic; the deferred m.mu.Unlock() runs
InstallStatus(g) ==
    /\ calls.of[g].pc = "Status"
    /\ LET c == calls.of[g]
       IN  IF c.got = NilTool
           THEN /\ calls' = [calls EXCEPT !.of[g].pc = "panicked",
                                          !.of[g].err = "nil pointer dereference"]
                /\ mu' = Unlock(mu)
           ELSE IF rtools.status[c.got.id] = StInstalled /\ ~c.force
           THEN /\ calls' = [calls EXCEPT !.of[g].pc = "done",
                                          !.of[g].err = "tool already exists"]
                /\ mu' = Unlock(mu)
           ELSE /\ calls' = [calls EXCEPT !.of[g].pc = "GetAgain"]
                /\ UNCHANGED mu
    /\ lastOp' = "Status"
    /\ UNCHANGED <<rmu, rtools, notRegistry>>

\* tool.Install(ctx, options), the installer being nil, and the return
InstallInstall(g) ==
    /\ calls.of[g].pc = "Install"
    /\ LET c == calls.of[g]
           r == Install(BaseTool(rtools.status[c.got.id], Empty, kwBinary, "zero"),
                        InstallOptions(kwBinary, Empty, c.force), TRUE)
       IN  /\ rtools' = [rtools EXCEPT !.status[c.got.id] = r.tool.status]
           /\ calls' = [calls EXCEPT !.of[g].pc = "done", !.of[g].err = r.err]
    /\ mu' = Unlock(mu)
    /\ lastOp' = "Install"
    /\ UNCHANGED <<rmu, notRegistry>>

NextRegistry ==
    \E g \in Callers :
        \/ RegistryLock(g)
        \/ RegistryCheck(g)
        \/ RegistryWrite(g)
        \/ RegistryRLock(g)
        \/ RegistryRead(g)
        \/ InstallLock(g)
        \/ InstallRLock(g)
        \/ InstallRead(g)
        \/ InstallStatus(g)
        \/ InstallInstall(g)

SpecRegistry == InitRegistry /\ [][NextRegistry]_vars

-----------------------------------------------------------------------------
(* C25: DefaultRegistry is thread-safe.  Under any interleaving of         *)
(* concurrent Register, Unregister, Get and Exists calls the results equal *)
(* those of some sequential order of the same calls, in which a name is    *)
(* retrievable exactly when it has been registered and not since           *)
(* unregistered, Register of a registered name fails with                  *)
(* tool-already-exists and leaves the existing tool in place, and Get and  *)
(* Unregister of an unregistered name fail with tool-not-found; exactly    *)
(* one of two concurrent Registers of the same name succeeds.              *)

\* what call e returns, and the registry it leaves, when it is made alone
\* on registry tools
C25_Alone(e, tools) ==
    LET held == tools[e.name]
        registered == e.name /= <<>> /\ held.id /= "nil"
    IN  CASE e.op = "Register" ->
               IF e.name = <<>>
               THEN [tools |-> tools, value |-> FALSE,
                     err |-> "validation failed: tool name cannot be empty"]
               ELSE IF registered
               THEN [tools |-> tools, err |-> "tool already exists", value |-> FALSE]
               ELSE IF ~e.tool.valid
               THEN [tools |-> tools, err |-> "tool validation failed", value |-> FALSE]
               ELSE [tools |-> [tools EXCEPT ![e.name] = e.tool], err |-> "", value |-> FALSE]
          [] e.op = "Unregister" ->
               IF registered
               THEN [tools |-> [tools EXCEPT ![e.name] = NilTool], err |-> "", value |-> FALSE]
               ELSE [tools |-> tools, err |-> "tool not found", value |-> FALSE]
          [] e.op = "Get" ->
               IF registered THEN [tools |-> tools, err |-> "", value |-> held]
               ELSE [tools |-> tools, err |-> "tool not found", value |-> NilTool]
          [] e.op = "Exists" -> [tools |-> tools, err |-> "", value |-> registered]

\* the calls events, made one after the other from registry tools on,
\* return what they returned and leave the registry final
RECURSIVE C25_Sequential(_, _, _)
C25_Sequential(events, tools, final) ==
    IF events = <<>> THEN tools = final
    ELSE LET e == Head(events)
             r == C25_Alone(e, tools)
         IN  /\ e.err = r.err
             /\ e.value = r.value
             /\ C25_Sequential(Tail(events), r.tools, final)

\* the Register calls of a valid tool that have returned
C25_Registered ==
    {g \in RegistryCallers :
        /\ calls.of[g].op = "Register"
        /\ calls.of[g].tool \in {ToolA, ToolB}
        /\ calls.of[g].pc = "done"}

C25_ThreadSafe ==
    /\ C25_Sequential(calls.order, calls.start, rtools.tools)
    /\ (Cardinality(C25_Registered) = 2 /\ calls.start[ToolName] = NilTool) =>
           Cardinality({g \in C25_Registered : calls.of[g].err = ""}) = 1

\* two goroutines registered different tools under one name in an empty
\* registry; the second to get the lock failed, and the InstallTool that
\* ran meanwhile got the winner's tool
C25_Witness ==
    /\ calls.start[ToolName] = NilTool
    /\ calls.of["g1"].tool = ToolA /\ calls.of["g1"].pc = "done"
    /\ calls.of["g1"].err = "tool already exists"
    /\ calls.of["g2"].tool = ToolB /\ calls.of["g2"].pc = "done"
    /\ calls.of["g2"].err = ""
    /\ calls.of[ManagerCaller].pc = "done"
    /\ calls.of[ManagerCaller].got = ToolB
    /\ rtools.tools[ToolName] = ToolB

-----------------------------------------------------------------------------
(* C27: DefaultManager.InstallTool never dereferences a missing tool: for  *)
(* every interleaving of InstallTool(name) with concurrent Register and    *)
(* Unregister calls made directly on the same registry, InstallTool        *)
(* returns nil or an error and never panics on the tool looked up between  *)
(* its Exists check and its Get.                                           *)

C27_NeverPanics ==
    \A g \in Callers : calls.of[g].op = "InstallTool" => calls.of[g].pc /= "panicked"

====
